---------------------------- MODULE Spec2Model ----------------------------
(***************************************************************************)
(* FinancialEngine (src/unnamed/part_000): the ledger of assets,           *)
(* liabilities, income streams and expenses, the aggregates and ratios     *)
(* derived from it, the risk assessment and the net worth history.         *)
(*                                                                         *)
(* Amounts are integers.  A ratio the engine computes with a division is   *)
(* kept as an exact fraction [num, den] in lowest terms with den > 0; the  *)
(* JavaScript value Infinity is the fraction [num |-> 1, den |-> 0].       *)
(* Floating point rounding is not modelled.  The entity fields no engine   *)
(* method reads (currency, dates, description, metadata, the income type,  *)
(* the expense category, isRecurring) are left out of the records.         *)
(*                                                                         *)
(* useStore (src/src/hooks/use-store.ts): the React hook that keeps        *)
(* accounts and transactions in a state object and in localStorage.  Its   *)
(* variables stay at their mount values in the engine's behaviours.        *)
(***************************************************************************)
EXTENDS Integers, Sequences, FiniteSets

(***************************************************************************)
(* Bounds of the model.                                                    *)
(***************************************************************************)
\* The number of calls made on the engine, or on the hook, in one behaviour.
MaxCalls == 4

(***************************************************************************)
(* enum AccountType, enum LiabilityType                                    *)
(***************************************************************************)
AccountType ==
  {"checking", "savings", "investment", "retirement",
   "property", "vehicle", "cryptocurrency", "commodity"}

LiabilityType ==
  {"mortgage", "car_loan", "student_loan", "credit_card", "personal_loan", "other"}

(***************************************************************************)
(* The entities the callers pass in.  "" is the empty (falsy) string.      *)
(***************************************************************************)
MkAsset(id, name, type, value) ==
  [id |-> id, name |-> name, type |-> type, value |-> value]

MkLiability(id, name, type, balance, interestRate, monthlyPayment) ==
  [id |-> id, name |-> name, type |-> type, balance |-> balance,
   interestRate |-> interestRate, monthlyPayment |-> monthlyPayment]

MkIncome(id, name, monthlyAmount, isActive) ==
  [id |-> id, name |-> name, monthlyAmount |-> monthlyAmount, isActive |-> isActive]

MkExpense(id, name, monthlyAmount) ==
  [id |-> id, name |-> name, monthlyAmount |-> monthlyAmount]

AssetInputs ==
  { MkAsset("a1", "A", "checking", 0),
    MkAsset("a1", "A", "checking", 90),
    MkAsset("a1", "A", "investment", 90),
    MkAsset("a2", "A", "savings", 90),
    MkAsset("", "A", "checking", 90),
    MkAsset("a1", "", "checking", 90),
    MkAsset("a2", "A", "checking", -1) }

LiabilityInputs ==
  { MkLiability("l1", "L", "mortgage", 0, 0, 43),
    MkLiability("l1", "L", "mortgage", 90, 5, 43),
    MkLiability("l1", "L", "credit_card", 90, 0, -1),
    MkLiability("", "L", "mortgage", 90, 5, 43),
    MkLiability("l1", "", "mortgage", 90, 5, 43),
    MkLiability("l1", "L", "mortgage", -1, 5, 43),
    MkLiability("l1", "L", "mortgage", 90, -1, 43) }

IncomeInputs ==
  { MkIncome("i1", "I", 0, TRUE),
    MkIncome("i1", "I", 50, TRUE),
    MkIncome("i1", "I", 100, TRUE),
    MkIncome("i1", "I", 100, FALSE),
    MkIncome("", "I", 100, TRUE),
    MkIncome("i1", "", 100, TRUE),
    MkIncome("i1", "I", -1, TRUE) }

ExpenseInputs ==
  { MkExpense("e1", "E", 0),
    MkExpense("e1", "E", 30),
    MkExpense("e1", "E", 90),
    MkExpense("", "E", 30),
    MkExpense("e1", "", 30),
    MkExpense("e1", "E", -1) }

\* The ids remove*(id) is called with; "zz" is never stored.
AssetIds == {"a1", "a2", "zz"}
LiabilityIds == {"l1", "zz"}
IncomeIds == {"i1", "zz"}
ExpenseIds == {"e1", "zz"}

(***************************************************************************)
(* Map<string, T>: a sequence of entities with distinct ids, in the        *)
(* insertion order of the keys (the order Map.values() iterates in).       *)
(***************************************************************************)
MapHas(m, id) == \E i \in 1..Len(m) : m[i].id = id

\* A set that deletes the key first, so that an overwritten key moves to the end.
MapSet_MoveToEnd(m, e) == Append(SelectSeq(m, LAMBDA x : x.id # e.id), e)

\* Map.prototype.set: a new key goes to the end, an existing key keeps its place.
MapSet(m, e) ==
  IF MapHas(m, e.id)
  THEN [i \in 1..Len(m) |-> IF m[i].id = e.id THEN e ELSE m[i]]
  ELSE Append(m, e)

\* A delete that drops the key and every entry inserted after it.
MapDelete_Truncate(m, id) ==
  IF \E i \in 1..Len(m) : m[i].id = id
  THEN SubSeq(m, 1, (CHOOSE i \in 1..Len(m) : m[i].id = id) - 1)
  ELSE m

\* Map.prototype.delete: the map without the key.
MapDelete(m, id) == SelectSeq(m, LAMBDA x : x.id # id)

(***************************************************************************)
(* The engine's fields, and what the last call did.                        *)
(***************************************************************************)
VARIABLES
  assets,            \* Map<string, Asset>
  liabilities,       \* Map<string, Liability>
  incomeStreams,     \* Map<string, IncomeStream>
  expenses,          \* Map<string, ExpenseCategory>
  netWorthHistory,   \* NetWorthSnapshot[]
  currency,          \* the reporting currency
  calls,             \* calls made so far; also the clock new Date() reads
  lastOp,            \* the name of the last call
  arg,               \* the argument of the last call
  threw,             \* whether the last call raised an error
  ret,               \* what the last call returned
  saved,             \* the entity lists of the last exportData() result the
                     \* caller has kept, if any
  store,             \* useStore: the state set by setStore
  isDefaultObject,   \* useStore: whether that state is the object defaultStore
  isLoaded,          \* useStore: the state set by setIsLoaded
  rendered,          \* useStore: the store and isLoaded of the last render,
                     \* which its effects read
  loadPending,       \* useStore: the load effect of the mount has yet to run
  persistPending,    \* useStore: the persist effect of the last render has
                     \* yet to run
  stale,             \* useStore: a state was set since the last render
  localStorage,      \* the item under STORAGE_KEY
  nextId,            \* the number of ids generated so far
  opening            \* the balance each account was created with

ledger == <<assets, liabilities, incomeStreams, expenses>>
engineVars == <<assets, liabilities, incomeStreams, expenses, netWorthHistory,
                currency, threw, ret, saved>>
hookVars == <<store, isDefaultObject, isLoaded, rendered, loadPending,
              persistPending, stale, localStorage, nextId, opening>>
vars == <<assets, liabilities, incomeStreams, expenses, netWorthHistory,
          currency, calls, lastOp, arg, threw, ret, saved, store,
          isDefaultObject, isLoaded, rendered, loadPending, persistPending,
          stale, localStorage, nextId, opening>>

Void == "void"


(***************************************************************************)
(* Numbers.  Array.prototype.reduce((sum, x) => sum + f(x), 0) over a      *)
(* sequence of integers, and the quotient of two integers as a fraction.   *)
(***************************************************************************)
RECURSIVE SeqSum(_)
SeqSum(s) == IF s = <<>> THEN 0 ELSE Head(s) + SeqSum(Tail(s))

Abs(n) == IF n < 0 THEN -n ELSE n

Sign(n) == IF n < 0 THEN -1 ELSE IF n > 0 THEN 1 ELSE 0

RECURSIVE GCD(_, _)
GCD(a, b) == IF b = 0 THEN a ELSE GCD(b, a % b)

\* The number n as a fraction.
Num(n) == [num |-> n, den |-> 1]

Zero == Num(0)

\* Infinity, -Infinity and NaN, as JavaScript's division by 0 yields them.
Infinity == [num |-> 1, den |-> 0]

NaN == [num |-> 0, den |-> 0]

\* a / b
Div(a, b) ==
  IF b = 0 THEN [num |-> Sign(a), den |-> 0]
  ELSE LET g == GCD(Abs(a), Abs(b))
       IN  [num |-> (Sign(b) * a) \div g, den |-> Abs(b) \div g]

\* (a / b) * 100
Percent(a, b) == Div(a * 100, b)

\* r < k, r > k and r >= k for a fraction r and an integer k; every
\* comparison with NaN is false.
Less(r, k) == r.num < k * r.den

Greater(r, k) == r.num > k * r.den

AtLeast(r, k) == r # NaN /\ r.num >= k * r.den

IsFinite(r) == r.den > 0

(***************************************************************************)
(* Aggregates (calculateTotalAssets .. getLiquidAssets)                    *)
(***************************************************************************)
calculateTotalAssets ==
  SeqSum([i \in 1..Len(assets) |-> assets[i].value])

calculateTotalLiabilities ==
  SeqSum([i \in 1..Len(liabilities) |-> liabilities[i].balance])

calculateNetWorth == calculateTotalAssets - calculateTotalLiabilities

\* getAssetBreakdown without the initial zero of every AccountType: only the
\* types of the stored assets get an entry.
getAssetBreakdown_Sparse ==
  [t \in {assets[i].type : i \in 1..Len(assets)} |->
     LET ofType == SelectSeq(assets, LAMBDA a : a.type = t)
     IN  SeqSum([i \in 1..Len(ofType) |-> ofType[i].value])]

\* Every AccountType starts at 0; each asset adds its value to its type.
getAssetBreakdown ==
  [t \in AccountType |->
     LET ofType == SelectSeq(assets, LAMBDA a : a.type = t)
     IN  SeqSum([i \in 1..Len(ofType) |-> ofType[i].value])]

getLiabilityBreakdown ==
  [t \in LiabilityType |->
     LET ofType == SelectSeq(liabilities, LAMBDA l : l.type = t)
     IN  SeqSum([i \in 1..Len(ofType) |-> ofType[i].balance])]

calculateTotalMonthlyIncome ==
  LET active == SelectSeq(incomeStreams, LAMBDA s : s.isActive)
  IN  SeqSum([i \in 1..Len(active) |-> active[i].monthlyAmount])

calculateTotalMonthlyExpenses ==
  SeqSum([i \in 1..Len(expenses) |-> expenses[i].monthlyAmount])

calculateMonthlyNetIncome ==
  calculateTotalMonthlyIncome - calculateTotalMonthlyExpenses

calculateProjectedAnnualSavings == calculateMonthlyNetIncome * 12

getLiquidAssets ==
  LET liquid == SelectSeq(assets, LAMBDA a : a.type = "checking" \/ a.type = "savings")
  IN  SeqSum([i \in 1..Len(liquid) |-> liquid[i].value])

(***************************************************************************)
(* Ratios (calculateDebtToIncomeRatio .. getAssetAllocation)               *)
(***************************************************************************)
\* The ratio taken over the balances instead of the monthly payments.
calculateDebtToIncomeRatio_ByBalance ==
  LET monthlyIncome == calculateTotalMonthlyIncome
      monthlyDebtPayments ==
        SeqSum([i \in 1..Len(liabilities) |-> liabilities[i].balance])
  IN  IF monthlyIncome = 0 THEN Zero
      ELSE Percent(monthlyDebtPayments, monthlyIncome)

calculateDebtToIncomeRatio ==
  LET monthlyIncome == calculateTotalMonthlyIncome
      monthlyDebtPayments ==
        SeqSum([i \in 1..Len(liabilities) |-> liabilities[i].monthlyPayment])
  IN  IF monthlyIncome = 0 THEN Zero
      ELSE Percent(monthlyDebtPayments, monthlyIncome)

\* calculateDebtToWorthRatio returning Infinity for every net worth <= 0.
calculateDebtToWorthRatio_NoZeroCase ==
  LET netWorth == calculateNetWorth
      totalLiabilities == calculateTotalLiabilities
  IN  IF netWorth <= 0 THEN Infinity
      ELSE Percent(totalLiabilities, netWorth)

calculateDebtToWorthRatio ==
  LET netWorth == calculateNetWorth
      totalLiabilities == calculateTotalLiabilities
  IN  IF netWorth <= 0
      THEN (IF netWorth = 0 THEN Zero ELSE Infinity)
      ELSE Percent(totalLiabilities, netWorth)

\* calculateSavingsRate without the early return for an income of 0.
calculateSavingsRate_NoGuard ==
  Percent(calculateMonthlyNetIncome, calculateTotalMonthlyIncome)

calculateSavingsRate ==
  LET monthlyIncome == calculateTotalMonthlyIncome
  IN  IF monthlyIncome = 0 THEN Zero
      ELSE Percent(calculateMonthlyNetIncome, monthlyIncome)

calculateLiquidityRatio ==
  LET liquidAssets == getLiquidAssets
      monthlyExpenses == calculateTotalMonthlyExpenses
  IN  IF monthlyExpenses = 0 THEN Zero
      ELSE Div(liquidAssets, monthlyExpenses)

calculateInvestmentRatio ==
  LET totalAssets == calculateTotalAssets
      invested == SelectSeq(assets, LAMBDA a :
                    a.type = "investment" \/ a.type = "retirement"
                      \/ a.type = "cryptocurrency")
      investmentAssets == SeqSum([i \in 1..Len(invested) |-> invested[i].value])
  IN  IF totalAssets = 0 THEN Zero
      ELSE Percent(investmentAssets, totalAssets)

\* The growth rate without the check for a previous net worth of 0.
calculateNetWorthGrowthRate_NoZeroGuard(h) ==
  IF Len(h) < 2 THEN Zero
  ELSE LET currentSnapshot == h[Len(h)]
           previousSnapshot == h[Len(h) - 1]
       IN  Percent(currentSnapshot.netWorth - previousSnapshot.netWorth,
                   previousSnapshot.netWorth)

\* The growth between the last two snapshots of the history h.
calculateNetWorthGrowthRate(h) ==
  IF Len(h) < 2 THEN Zero
  ELSE LET currentSnapshot == h[Len(h)]
           previousSnapshot == h[Len(h) - 1]
       IN  IF previousSnapshot.netWorth = 0 THEN Zero
           ELSE Percent(currentSnapshot.netWorth - previousSnapshot.netWorth,
                        previousSnapshot.netWorth)

\* The months of runway taken over all assets instead of the liquid ones.
calculateEmergencyFundMonths_AllAssets ==
  LET liquidAssets == calculateTotalAssets
      monthlyExpenses == calculateTotalMonthlyExpenses
  IN  IF monthlyExpenses = 0 THEN Zero
      ELSE Div(liquidAssets, monthlyExpenses)

calculateEmergencyFundMonths ==
  LET liquidAssets == getLiquidAssets
      monthlyExpenses == calculateTotalMonthlyExpenses
  IN  IF monthlyExpenses = 0 THEN Zero
      ELSE Div(liquidAssets, monthlyExpenses)

getAssetAllocation ==
  LET totalAssets == calculateTotalAssets
      breakdown == getAssetBreakdown
  IN  [t \in DOMAIN breakdown |->
         IF totalAssets > 0 THEN Percent(breakdown[t], totalAssets) ELSE Zero]

calculateKPIMetrics(h) ==
  [debtToIncomeRatio |-> calculateDebtToIncomeRatio,
   debtToWorthRatio |-> calculateDebtToWorthRatio,
   savingsRate |-> calculateSavingsRate,
   liquidityRatio |-> calculateLiquidityRatio,
   investmentRatio |-> calculateInvestmentRatio,
   netWorthGrowthRate |-> calculateNetWorthGrowthRate(h),
   emergencyFundMonths |-> calculateEmergencyFundMonths,
   assetAllocation |-> getAssetAllocation]

(***************************************************************************)
(* calculateFinancialTrends, over the history h                            *)
(***************************************************************************)
\* The trends with the change taken against the magnitude of the previous
\* net worth.
calculateFinancialTrends_ByMagnitude(h) ==
  IF Len(h) < 2
  THEN [netWorthTrend |-> "stable", netWorthChangePercent |-> Zero,
        debtTrend |-> "stable", savingsTrendPercent |-> Zero,
        incomeGrowthPercent |-> Zero, expenseGrowthPercent |-> Zero]
  ELSE LET current == h[Len(h)]
           previous == h[IF Len(h) - 2 > 0 THEN Len(h) - 1 ELSE 1]
           netWorthChange == current.netWorth - previous.netWorth
           debtChange == current.totalLiabilities - previous.totalLiabilities
       IN  [netWorthTrend |->
              IF netWorthChange > 0 THEN "increasing"
              ELSE IF netWorthChange < 0 THEN "decreasing" ELSE "stable",
            netWorthChangePercent |->
              IF previous.netWorth = 0 THEN Zero
              ELSE Percent(netWorthChange, Abs(previous.netWorth)),
            debtTrend |->
              IF debtChange < 0 THEN "decreasing"
              ELSE IF debtChange > 0 THEN "increasing" ELSE "stable",
            savingsTrendPercent |-> calculateSavingsRate,
            incomeGrowthPercent |-> Zero,
            expenseGrowthPercent |-> Zero]

\* The trends taken against the first snapshot of the history instead of the
\* one before the last.
calculateFinancialTrends_FromFirst(h) ==
  IF Len(h) < 2
  THEN [netWorthTrend |-> "stable", netWorthChangePercent |-> Zero,
        debtTrend |-> "stable", savingsTrendPercent |-> Zero,
        incomeGrowthPercent |-> Zero, expenseGrowthPercent |-> Zero]
  ELSE LET current == h[Len(h)]
           previous == h[1]
           netWorthChange == current.netWorth - previous.netWorth
           debtChange == current.totalLiabilities - previous.totalLiabilities
       IN  [netWorthTrend |->
              IF netWorthChange > 0 THEN "increasing"
              ELSE IF netWorthChange < 0 THEN "decreasing" ELSE "stable",
            netWorthChangePercent |->
              IF previous.netWorth = 0 THEN Zero
              ELSE Percent(netWorthChange, previous.netWorth),
            debtTrend |->
              IF debtChange < 0 THEN "decreasing"
              ELSE IF debtChange > 0 THEN "increasing" ELSE "stable",
            savingsTrendPercent |-> calculateSavingsRate,
            incomeGrowthPercent |-> Zero,
            expenseGrowthPercent |-> Zero]

calculateFinancialTrends(h) ==
  IF Len(h) < 2
  THEN [netWorthTrend |-> "stable", netWorthChangePercent |-> Zero,
        debtTrend |-> "stable", savingsTrendPercent |-> Zero,
        incomeGrowthPercent |-> Zero, expenseGrowthPercent |-> Zero]
  ELSE LET current == h[Len(h)]
           previous == h[IF Len(h) - 2 > 0 THEN Len(h) - 1 ELSE 1]
           netWorthChange == current.netWorth - previous.netWorth
           debtChange == current.totalLiabilities - previous.totalLiabilities
       IN  [netWorthTrend |->
              IF netWorthChange > 0 THEN "increasing"
              ELSE IF netWorthChange < 0 THEN "decreasing" ELSE "stable",
            netWorthChangePercent |->
              IF previous.netWorth = 0 THEN Zero
              ELSE Percent(netWorthChange, previous.netWorth),
            debtTrend |->
              IF debtChange < 0 THEN "decreasing"
              ELSE IF debtChange > 0 THEN "increasing" ELSE "stable",
            savingsTrendPercent |-> calculateSavingsRate,
            incomeGrowthPercent |-> Zero,
            expenseGrowthPercent |-> Zero]

(***************************************************************************)
(* performRiskAssessment.  Each rule contributes a sequence of             *)
(* <<factor, recommendation>> pairs, empty when the rule does not fire;    *)
(* push() appends them in the order of the rules.                          *)
(***************************************************************************)
DebtRule1(debtToIncome) ==
  IF Greater(debtToIncome, 43)
  THEN << <<"High debt-to-income ratio (>43%)",
            "Consider debt reduction strategies or increasing income">> >>
  ELSE <<>>

\* Rule 2 as the else branch of rule 1.
DebtRule2_ElseIf(debtToIncome) ==
  IF ~Greater(debtToIncome, 43) /\ Greater(debtToIncome, 35)
  THEN << <<"Elevated debt-to-income ratio (>35%)",
            "Monitor debt levels closely">> >>
  ELSE <<>>

DebtRule2(debtToIncome) ==
  IF Greater(debtToIncome, 35)
  THEN << <<"Elevated debt-to-income ratio (>35%)",
            "Monitor debt levels closely">> >>
  ELSE <<>>

LiquidityRule(liquidityRatio) ==
  IF Less(liquidityRatio, 1)
  THEN << <<"Low liquidity (less than 1 month of expenses)",
            "Build emergency fund to cover at least 3-6 months of expenses">> >>
  ELSE IF Less(liquidityRatio, 3)
  THEN << <<"Insufficient emergency fund (less than 3 months)",
            "Aim to save 3-6 months of expenses">> >>
  ELSE <<>>

\* Rule 4 taking an emergency fund of 0 months for one that was not measured.
EmergencyRule_SkipsZero(emergencyFunds) ==
  IF Less(emergencyFunds, 3) /\ Greater(emergencyFunds, 0)
  THEN << <<"Emergency fund insufficient",
            "Prioritize building emergency savings">> >>
  ELSE <<>>

EmergencyRule(emergencyFunds) ==
  IF Less(emergencyFunds, 3)
  THEN << <<"Emergency fund insufficient",
            "Prioritize building emergency savings">> >>
  ELSE <<>>

SavingsRule(savingsRate) ==
  IF Less(savingsRate, 10)
  THEN << <<"Low savings rate",
            "Increase savings rate to at least 10-15% of income">> >>
  ELSE <<>>

NetWorthRule(netWorth) ==
  IF netWorth < 0
  THEN << <<"Negative net worth",
            "Focus on asset building and debt reduction">> >>
  ELSE <<>>

\* The risk level with the upper limit of "moderate" off by one.
RiskLevelOf_OffByOne(n) ==
  IF n = 0 THEN "low"
  ELSE IF n <= 3 THEN "moderate"
  ELSE IF n <= 4 THEN "high"
  ELSE "critical"

\* The risk level of a list of n factors.
RiskLevelOf(n) ==
  IF n = 0 THEN "low"
  ELSE IF n <= 2 THEN "moderate"
  ELSE IF n <= 4 THEN "high"
  ELSE "critical"

performRiskAssessment ==
  LET debtToIncome == calculateDebtToIncomeRatio
      liquidityRatio == calculateLiquidityRatio
      emergencyFunds == calculateEmergencyFundMonths
      savingsRate == calculateSavingsRate
      netWorth == calculateNetWorth
      fired == DebtRule1(debtToIncome) \o DebtRule2(debtToIncome)
                 \o LiquidityRule(liquidityRatio) \o EmergencyRule(emergencyFunds)
                 \o SavingsRule(savingsRate) \o NetWorthRule(netWorth)
      riskFactors == [i \in 1..Len(fired) |-> fired[i][1]]
      recommendations == [i \in 1..Len(fired) |-> fired[i][2]]
  IN  [riskLevel |-> RiskLevelOf(Len(riskFactors)),
       riskFactors |-> riskFactors,
       recommendations |-> recommendations,
       debtBurden |-> debtToIncome,
       liquidityConcern |-> Less(liquidityRatio, 3),
       emergencyFundSufficiency |-> AtLeast(emergencyFunds, 3)]

(***************************************************************************)
(* Snapshots and the report                                                *)
(***************************************************************************)
\* A snapshot whose net worth adds the liabilities to the assets.
NewSnapshot_AddsLiabilities(date) ==
  [date |-> date,
   totalAssets |-> calculateTotalAssets,
   totalLiabilities |-> calculateTotalLiabilities,
   netWorth |-> calculateTotalAssets + calculateTotalLiabilities,
   currency |-> currency,
   assetBreakdown |-> getAssetBreakdown,
   liabilityBreakdown |-> getLiabilityBreakdown]

\* The record createNetWorthSnapshot(date) builds from the ledger.
NewSnapshot(date) ==
  [date |-> date,
   totalAssets |-> calculateTotalAssets,
   totalLiabilities |-> calculateTotalLiabilities,
   netWorth |-> calculateNetWorth,
   currency |-> currency,
   assetBreakdown |-> getAssetBreakdown,
   liabilityBreakdown |-> getLiabilityBreakdown]

\* new Date(): the clock advances by one with every call.
Now == calls

\* A snapshot taken by every report, whatever the history holds.
BootstrappedHistory_Always == Append(netWorthHistory, NewSnapshot(Now))

\* The history generateAnalytics() leaves: one snapshot is taken when it is empty.
BootstrappedHistory ==
  IF Len(netWorthHistory) = 0
  THEN Append(netWorthHistory, NewSnapshot(Now))
  ELSE netWorthHistory

\* The report computed over the history as it was before the snapshot on an
\* empty history.
AnalyticsReport_BeforeBootstrap(h) ==
  [timestamp |-> Now,
   netWorthHistory |-> netWorthHistory,
   monthlyIncomeTotal |-> calculateTotalMonthlyIncome,
   monthlyExpensesTotal |-> calculateTotalMonthlyExpenses,
   monthlyNetIncome |-> calculateMonthlyNetIncome,
   annualProjectedSavings |-> calculateProjectedAnnualSavings,
   metrics |-> calculateKPIMetrics(netWorthHistory),
   trends |-> calculateFinancialTrends(netWorthHistory),
   riskAssessment |-> performRiskAssessment]

\* The report generateAnalytics() returns, over the history h it has left.
AnalyticsReport(h) ==
  [timestamp |-> Now,
   netWorthHistory |-> h,
   monthlyIncomeTotal |-> calculateTotalMonthlyIncome,
   monthlyExpensesTotal |-> calculateTotalMonthlyExpenses,
   monthlyNetIncome |-> calculateMonthlyNetIncome,
   annualProjectedSavings |-> calculateProjectedAnnualSavings,
   metrics |-> calculateKPIMetrics(h),
   trends |-> calculateFinancialTrends(h),
   riskAssessment |-> performRiskAssessment]

(***************************************************************************)
(* Validation: the conditions under which the add calls throw.  !e.id holds of     *)
(* the empty string.                                                       *)
(***************************************************************************)
InvalidAsset(e) == e.id = "" \/ e.name = "" \/ e.value < 0

\* addLiability's check without the interest rate.
InvalidLiability_NoRate(e) == e.id = "" \/ e.name = "" \/ e.balance < 0

InvalidLiability(e) ==
  e.id = "" \/ e.name = "" \/ e.balance < 0 \/ e.interestRate < 0

InvalidIncome(e) == e.id = "" \/ e.name = "" \/ e.monthlyAmount < 0

\* addExpense's check without the amount.
InvalidExpense_NoAmount(e) == e.id = "" \/ e.name = ""

InvalidExpense(e) == e.id = "" \/ e.name = "" \/ e.monthlyAmount < 0

(***************************************************************************)
(* importData: each list is walked front to back through the add call of   *)
(* its kind; the walk stops at the first entity that call throws on, with  *)
(* the entities before it stored.                                          *)
(***************************************************************************)
InvalidOf(kind, e) ==
  CASE kind = "assets" -> InvalidAsset(e)
    [] kind = "liabilities" -> InvalidLiability(e)
    [] kind = "incomeStreams" -> InvalidIncome(e)
    [] kind = "expenses" -> InvalidExpense(e)

\* The walk of a list from its last entity to its first.
RECURSIVE ForEachAdd_BackToFront(_, _, _)
ForEachAdd_BackToFront(m, list, kind) ==
  IF list = <<>> THEN [map |-> m, threw |-> FALSE]
  ELSE IF InvalidOf(kind, list[Len(list)]) THEN [map |-> m, threw |-> TRUE]
  ELSE ForEachAdd_BackToFront(MapSet(m, list[Len(list)]),
                              SubSeq(list, 1, Len(list) - 1), kind)

RECURSIVE ForEachAdd(_, _, _)
ForEachAdd(m, list, kind) ==
  IF list = <<>> THEN [map |-> m, threw |-> FALSE]
  ELSE IF InvalidOf(kind, Head(list)) THEN [map |-> m, threw |-> TRUE]
  ELSE ForEachAdd(MapSet(m, Head(list)), Tail(list), kind)

\* A bundle names the lists it holds in "present"; an absent list is undefined.
MkBundle(present, as, ls, is, es) ==
  [present |-> present, assets |-> as, liabilities |-> ls,
   incomeStreams |-> is, expenses |-> es]

BundleInputs ==
  { MkBundle({}, <<>>, <<>>, <<>>, <<>>),
    MkBundle({"assets"},
             << MkAsset("a1", "A", "checking", 90), MkAsset("a2", "A", "savings", 90) >>,
             <<>>, <<>>, <<>>),
    MkBundle({"assets", "liabilities", "incomeStreams", "expenses"},
             << MkAsset("a2", "A", "savings", 90), MkAsset("a1", "A", "investment", 90) >>,
             << MkLiability("l1", "L", "mortgage", 90, 5, 43) >>,
             << MkIncome("i1", "I", 50, TRUE) >>,
             << MkExpense("e1", "E", 90) >>),
    MkBundle({"assets", "liabilities"},
             << MkAsset("a1", "A", "checking", 90), MkAsset("a2", "A", "checking", -1),
                MkAsset("a2", "A", "savings", 90) >>,
             << MkLiability("l1", "L", "mortgage", 90, 5, 43) >>,
             <<>>, <<>>),
    MkBundle({"assets", "liabilities", "incomeStreams"},
             << MkAsset("a1", "A", "checking", 0) >>,
             << MkLiability("l1", "L", "mortgage", 90, -1, 43) >>,
             << MkIncome("i1", "I", 100, TRUE) >>,
             <<>>),
    MkBundle({"incomeStreams", "expenses"},
             <<>>, <<>>,
             << MkIncome("i1", "I", 100, TRUE) >>,
             << MkExpense("e1", "E", 30), MkExpense("e1", "", 30) >>) }

\* An exportData() result passed to importData: its four entity lists are
\* present, its other fields are not read.
BundleOf(exported) ==
  MkBundle({"assets", "liabilities", "incomeStreams", "expenses"},
           exported.assets, exported.liabilities,
           exported.incomeStreams, exported.expenses)

\* The bundle the caller can build from the export it has kept.
SavedBundles == {BundleOf(saved[i]) : i \in 1..Len(saved)}

\* An import that stores nothing when one of its entities is invalid.
ImportResult_AllOrNothing(data) ==
  LET a == IF "assets" \in data.present
           THEN ForEachAdd(assets, data.assets, "assets")
           ELSE [map |-> assets, threw |-> FALSE]
      l == IF ~a.threw /\ "liabilities" \in data.present
           THEN ForEachAdd(liabilities, data.liabilities, "liabilities")
           ELSE [map |-> liabilities, threw |-> a.threw]
      i == IF ~l.threw /\ "incomeStreams" \in data.present
           THEN ForEachAdd(incomeStreams, data.incomeStreams, "incomeStreams")
           ELSE [map |-> incomeStreams, threw |-> l.threw]
      e == IF ~i.threw /\ "expenses" \in data.present
           THEN ForEachAdd(expenses, data.expenses, "expenses")
           ELSE [map |-> expenses, threw |-> i.threw]
  IN  IF e.threw
      THEN [assets |-> assets, liabilities |-> liabilities,
            incomeStreams |-> incomeStreams, expenses |-> expenses, threw |-> TRUE]
      ELSE [assets |-> a.map, liabilities |-> l.map, incomeStreams |-> i.map,
            expenses |-> e.map, threw |-> FALSE]

\* The ledger importData(data) leaves, and whether it threw.
ImportResult(data) ==
  LET a == IF "assets" \in data.present
           THEN ForEachAdd(assets, data.assets, "assets")
           ELSE [map |-> assets, threw |-> FALSE]
      l == IF ~a.threw /\ "liabilities" \in data.present
           THEN ForEachAdd(liabilities, data.liabilities, "liabilities")
           ELSE [map |-> liabilities, threw |-> a.threw]
      i == IF ~l.threw /\ "incomeStreams" \in data.present
           THEN ForEachAdd(incomeStreams, data.incomeStreams, "incomeStreams")
           ELSE [map |-> incomeStreams, threw |-> l.threw]
      e == IF ~i.threw /\ "expenses" \in data.present
           THEN ForEachAdd(expenses, data.expenses, "expenses")
           ELSE [map |-> expenses, threw |-> i.threw]
  IN  [assets |-> a.map, liabilities |-> l.map, incomeStreams |-> i.map,
       expenses |-> e.map, threw |-> e.threw]

(***************************************************************************)
(* The calls.  Every call advances the clock and records its name, its     *)
(* argument, whether it threw and what it returned.                        *)
(***************************************************************************)
\* The four entity lists of an exportData() result: the fields importData reads.
EntityLists(exported) ==
  [assets |-> exported.assets, liabilities |-> exported.liabilities,
   incomeStreams |-> exported.incomeStreams, expenses |-> exported.expenses]

Called(name, a, t, r) ==
  /\ calls < MaxCalls
  /\ calls' = calls + 1
  /\ lastOp' = name
  /\ arg' = a
  /\ threw' = t
  /\ ret' = r
  /\ currency' = currency
  /\ saved' = IF name = "exportData" THEN <<EntityLists(r)>> ELSE saved
  /\ UNCHANGED hookVars

addAsset(e) ==
  /\ Called("addAsset", e, InvalidAsset(e), Void)
  /\ assets' = IF InvalidAsset(e) THEN assets ELSE MapSet(assets, e)
  /\ UNCHANGED <<liabilities, incomeStreams, expenses, netWorthHistory>>

removeAsset(id) ==
  /\ Called("removeAsset", id, FALSE, MapHas(assets, id))
  /\ assets' = MapDelete(assets, id)
  /\ UNCHANGED <<liabilities, incomeStreams, expenses, netWorthHistory>>

addLiability(e) ==
  /\ Called("addLiability", e, InvalidLiability(e), Void)
  /\ liabilities' = IF InvalidLiability(e) THEN liabilities ELSE MapSet(liabilities, e)
  /\ UNCHANGED <<assets, incomeStreams, expenses, netWorthHistory>>

removeLiability(id) ==
  /\ Called("removeLiability", id, FALSE, MapHas(liabilities, id))
  /\ liabilities' = MapDelete(liabilities, id)
  /\ UNCHANGED <<assets, incomeStreams, expenses, netWorthHistory>>

addIncomeStream(e) ==
  /\ Called("addIncomeStream", e, InvalidIncome(e), Void)
  /\ incomeStreams' = IF InvalidIncome(e) THEN incomeStreams ELSE MapSet(incomeStreams, e)
  /\ UNCHANGED <<assets, liabilities, expenses, netWorthHistory>>

removeIncomeStream(id) ==
  /\ Called("removeIncomeStream", id, FALSE, MapHas(incomeStreams, id))
  /\ incomeStreams' = MapDelete(incomeStreams, id)
  /\ UNCHANGED <<assets, liabilities, expenses, netWorthHistory>>

addExpense(e) ==
  /\ Called("addExpense", e, InvalidExpense(e), Void)
  /\ expenses' = IF InvalidExpense(e) THEN expenses ELSE MapSet(expenses, e)
  /\ UNCHANGED <<assets, liabilities, incomeStreams, netWorthHistory>>

removeExpense(id) ==
  /\ Called("removeExpense", id, FALSE, MapHas(expenses, id))
  /\ expenses' = MapDelete(expenses, id)
  /\ UNCHANGED <<assets, liabilities, incomeStreams, netWorthHistory>>

\* The dates a caller passes to createNetWorthSnapshot(date).
GivenDates == {0}

\* A snapshot put at the front of the history.
createNetWorthSnapshot_Prepend(date) ==
  /\ Called("createNetWorthSnapshot", date, FALSE, NewSnapshot(date))
  /\ netWorthHistory' = <<NewSnapshot(date)>> \o netWorthHistory
  /\ UNCHANGED ledger

\* createNetWorthSnapshot(date), and createNetWorthSnapshot() at the clock's date.
createNetWorthSnapshot(date) ==
  /\ Called("createNetWorthSnapshot", date, FALSE, NewSnapshot(date))
  /\ netWorthHistory' = Append(netWorthHistory, NewSnapshot(date))
  /\ UNCHANGED ledger

clearNetWorthHistory ==
  /\ Called("clearNetWorthHistory", Void, FALSE, Void)
  /\ netWorthHistory' = <<>>
  /\ UNCHANGED ledger

generateAnalytics ==
  /\ Called("generateAnalytics", Void, FALSE, AnalyticsReport(BootstrappedHistory))
  /\ netWorthHistory' = BootstrappedHistory
  /\ UNCHANGED ledger

\* getNetWorthHistory() is read before generateAnalytics() runs.
exportData ==
  /\ Called("exportData", Void, FALSE,
            [assets |-> assets, liabilities |-> liabilities,
             incomeStreams |-> incomeStreams, expenses |-> expenses,
             netWorthHistory |-> netWorthHistory,
             analytics |-> AnalyticsReport(BootstrappedHistory)])
  /\ netWorthHistory' = BootstrappedHistory
  /\ UNCHANGED ledger

importData(data) ==
  LET r == ImportResult(data)
  IN  /\ Called("importData", data, r.threw, Void)
      /\ assets' = r.assets
      /\ liabilities' = r.liabilities
      /\ incomeStreams' = r.incomeStreams
      /\ expenses' = r.expenses
      /\ UNCHANGED netWorthHistory

\* A reset that clears the ledger and keeps the snapshot history.
reset_KeepsHistory ==
  /\ Called("reset", Void, FALSE, Void)
  /\ assets' = <<>>
  /\ liabilities' = <<>>
  /\ incomeStreams' = <<>>
  /\ expenses' = <<>>
  /\ UNCHANGED netWorthHistory

reset ==
  /\ Called("reset", Void, FALSE, Void)
  /\ assets' = <<>>
  /\ liabilities' = <<>>
  /\ incomeStreams' = <<>>
  /\ expenses' = <<>>
  /\ netWorthHistory' = <<>>

(***************************************************************************)
(* useStore: the store of the React hook and its serialized form.  An      *)
(* account is modelled by its id and balance, a transaction by its id,     *)
(* accountId, type and amount; ids are the numbers 1, 2, ... in the order  *)
(* they are generated.  A text of localStorage is a record that tells      *)
(* whether JSON.parse accepts it, the value it parses to and its           *)
(* indentation; the item under STORAGE_KEY is <<>> when absent and <<t>>   *)
(* when it holds the text t.                                               *)
(***************************************************************************)
defaultStore == [accounts |-> <<>>, transactions |-> <<>>, loans |-> <<>>,
                 goals |-> <<>>]

MkAccount(id, balance) == [id |-> id, balance |-> balance]

MkTransaction(id, accountId, type, amount) ==
  [id |-> id, accountId |-> accountId, type |-> type, amount |-> amount]

TransactionTypes == {"income", "expense", "transfer"}

JSONstringify(value, indent) ==
  [valid |-> TRUE, value |-> value, indent |-> indent]

JSONparse(text) == text.value

NotJSON == [valid |-> FALSE, value |-> defaultStore, indent |-> 0]

\* A store saved by an earlier session: one account, one transaction.
SavedStore ==
  [defaultStore EXCEPT !.accounts = <<MkAccount(0, 50)>>,
                       !.transactions = <<MkTransaction(0, 0, "income", 50)>>]

\* The hook at mount, with the given item in localStorage: the first render
\* has happened with the initial states, and its two effects are to run.
Mounted(item) ==
  /\ store = defaultStore
  /\ isDefaultObject = TRUE
  /\ isLoaded = FALSE
  /\ rendered = [store |-> defaultStore, isDefaultObject |-> TRUE,
                 isLoaded |-> FALSE]
  /\ loadPending = TRUE
  /\ persistPending = TRUE
  /\ stale = FALSE
  /\ localStorage = item
  /\ nextId = 0
  /\ opening = <<>>

(***************************************************************************)
(* The engine after new FinancialEngine(), and its behaviours.             *)
(***************************************************************************)
NewEngine ==
  /\ assets = <<>>
  /\ liabilities = <<>>
  /\ incomeStreams = <<>>
  /\ expenses = <<>>
  /\ netWorthHistory = <<>>
  /\ currency = "USD"
  /\ calls = 0
  /\ lastOp = "constructor"
  /\ arg = Void
  /\ threw = FALSE
  /\ ret = Void
  /\ saved = <<>>

Init == NewEngine /\ Mounted(<<>>)

Next ==
  \/ \E e \in AssetInputs : addAsset(e)
  \/ \E id \in AssetIds : removeAsset(id)
  \/ \E e \in LiabilityInputs : addLiability(e)
  \/ \E id \in LiabilityIds : removeLiability(id)
  \/ \E e \in IncomeInputs : addIncomeStream(e)
  \/ \E id \in IncomeIds : removeIncomeStream(id)
  \/ \E e \in ExpenseInputs : addExpense(e)
  \/ \E id \in ExpenseIds : removeExpense(id)
  \/ \E d \in GivenDates \cup {Now} : createNetWorthSnapshot(d)
  \/ clearNetWorthHistory
  \/ generateAnalytics
  \/ exportData
  \/ \E data \in BundleInputs \cup SavedBundles : importData(data)
  \/ reset

Spec == Init /\ [][Next]_vars

(***************************************************************************)
(* The engine driven with the entities of one household: two liquid        *)
(* assets, a mortgage, one active income stream and one expense, added one *)
(* by one in any order or imported as one bundle.                          *)
(***************************************************************************)
ScenarioAssets ==
  { MkAsset("checking", "Checking", "checking", 5000),
    MkAsset("savings", "Savings", "savings", 10000) }

ScenarioLiabilities ==
  { MkLiability("mortgage", "Mortgage", "mortgage", 200000, 4, 1200) }

ScenarioIncome == { MkIncome("salary", "Salary", 6000, TRUE) }

ScenarioExpenses == { MkExpense("living", "Living", 4000) }

ScenarioBundle ==
  MkBundle({"assets", "liabilities", "incomeStreams", "expenses"},
           << MkAsset("checking", "Checking", "checking", 5000),
              MkAsset("savings", "Savings", "savings", 10000) >>,
           << MkLiability("mortgage", "Mortgage", "mortgage", 200000, 4, 1200) >>,
           << MkIncome("salary", "Salary", 6000, TRUE) >>,
           << MkExpense("living", "Living", 4000) >>)

ScenarioNext ==
  \/ \E e \in ScenarioAssets : addAsset(e)
  \/ \E e \in ScenarioLiabilities : addLiability(e)
  \/ \E e \in ScenarioIncome : addIncomeStream(e)
  \/ \E e \in ScenarioExpenses : addExpense(e)
  \/ importData(ScenarioBundle)

ScenarioSpec == Init /\ [][ScenarioNext]_vars

(***************************************************************************)
(* The engine driven through its ledger operations only.  The aggregates,  *)
(* the ratios and the risk assessment read the four collections and        *)
(* nothing else, and no snapshot or report call writes them.               *)
(***************************************************************************)
LedgerNext ==
  \/ \E e \in AssetInputs : addAsset(e)
  \/ \E id \in AssetIds : removeAsset(id)
  \/ \E e \in LiabilityInputs : addLiability(e)
  \/ \E id \in LiabilityIds : removeLiability(id)
  \/ \E e \in IncomeInputs : addIncomeStream(e)
  \/ \E id \in IncomeIds : removeIncomeStream(id)
  \/ \E e \in ExpenseInputs : addExpense(e)
  \/ \E id \in ExpenseIds : removeExpense(id)
  \/ \E data \in BundleInputs : importData(data)
  \/ reset

LedgerSpec == Init /\ [][LedgerNext]_vars

(***************************************************************************)
(* The engine together with a caller that keeps the objects it exchanged   *)
(* with it.  addAsset stores the object it is given, getAssets() returns   *)
(* the stored objects, createNetWorthSnapshot() returns the object it      *)
(* pushed and getNetWorthHistory() returns a new array of the same         *)
(* snapshot objects: an assignment the caller makes to a field of such an  *)
(* object is an assignment to the stored one.                              *)
(***************************************************************************)
\* The values the caller assigns.
CallerValues == {-1}

\* asset.value = v on the i-th stored asset, held by the caller since
\* addAsset(asset) or getAssets().
CallerWritesAsset(i, v) ==
  /\ Called("asset.value =", <<i, v>>, FALSE, Void)
  /\ assets' = [assets EXCEPT ![i].value = v]
  /\ UNCHANGED <<liabilities, incomeStreams, expenses, netWorthHistory>>

\* snapshot.netWorth = v on the i-th snapshot, held by the caller since
\* createNetWorthSnapshot() or getNetWorthHistory().
CallerWritesSnapshot(i, v) ==
  /\ Called("snapshot.netWorth =", <<i, v>>, FALSE, Void)
  /\ netWorthHistory' = [netWorthHistory EXCEPT ![i].netWorth = v]
  /\ UNCHANGED ledger

AliasNext ==
  \/ \E e \in AssetInputs : addAsset(e)
  \/ \E id \in AssetIds : removeAsset(id)
  \/ createNetWorthSnapshot(Now)
  \/ \E i \in 1..Len(assets), v \in CallerValues : CallerWritesAsset(i, v)
  \/ \E i \in 1..Len(netWorthHistory), v \in CallerValues : CallerWritesSnapshot(i, v)

AliasSpec == Init /\ [][AliasNext]_vars

(***************************************************************************)
(* useStore: the hook's effects, renders and operations.  A functional     *)
(* setStore updater is applied when the operation is called: updaters run  *)
(* one after the other on the latest state, so the state they leave is the *)
(* same as when React runs them at the next render.  The operations are    *)
(* called once the effects of the mount have started, that is after the    *)
(* load effect.                                                            *)
(***************************************************************************)
OpeningBalances == {100}
Amounts == {10}
UpdatedAmounts == {0, 20}

AccountIdsOf(s) == {s.accounts[i].id : i \in DOMAIN s.accounts}

TransactionIdsOf(s) == {s.transactions[i].id : i \in DOMAIN s.transactions}

\* prevStore.transactions.find((txn) => txn.id === transactionId)
FindTransaction(s, transactionId) ==
  s.transactions[CHOOSE i \in DOMAIN s.transactions :
                   s.transactions[i].id = transactionId]

\* prevStore.accounts.map(acc => acc.id === accountId ? {...acc, balance:
\* acc.balance + balanceChange} : acc)
AddToBalance(accounts, accountId, balanceChange) ==
  [i \in DOMAIN accounts |->
     IF accounts[i].id = accountId
       THEN [accounts[i] EXCEPT !.balance = @ + balanceChange]
       ELSE accounts[i]]

\* { ...object, ...updates }
Spread(object, updates) ==
  [f \in DOMAIN object |->
     IF f \in DOMAIN updates THEN updates[f] ELSE object[f]]

\* a || b on numbers
OrElse(a, b) == IF a # 0 THEN a ELSE b

StoreCalled(name, a, r) ==
  /\ ~loadPending
  /\ calls < MaxCalls
  /\ calls' = calls + 1
  /\ lastOp' = name
  /\ arg' = a
  /\ ret' = r
  /\ UNCHANGED <<assets, liabilities, incomeStreams, expenses,
                 netWorthHistory, currency, threw, saved>>

\* setStore with a value that is a new object
setStore(value) ==
  /\ store' = value
  /\ isDefaultObject' = FALSE
  /\ stale' = TRUE

\* setStore(defaultStore): when the state already is that object and no
\* update is waiting, React does not schedule a render.
setStoreDefault ==
  /\ store' = defaultStore
  /\ isDefaultObject' = TRUE
  /\ stale' = (stale \/ ~isDefaultObject)

LoadEffect ==
  /\ loadPending
  /\ IF localStorage # <<>> /\ localStorage[1].valid
       THEN /\ store' = JSONparse(localStorage[1])
            /\ isDefaultObject' = FALSE
       ELSE /\ store' = defaultStore
            /\ isDefaultObject' = TRUE
  /\ isLoaded' = TRUE
  /\ stale' = TRUE
  /\ loadPending' = FALSE
  /\ UNCHANGED <<rendered, persistPending, localStorage, nextId, opening,
                 calls, lastOp, arg, engineVars>>

PersistEffect_Unguarded ==
  /\ persistPending
  /\ ~loadPending
  /\ localStorage' = <<JSONstringify(rendered.store, 0)>>
  /\ persistPending' = FALSE
  /\ UNCHANGED <<store, isDefaultObject, isLoaded, rendered, loadPending,
                 stale, nextId, opening, calls, lastOp, arg, engineVars>>

PersistEffect ==
  /\ persistPending
  /\ ~loadPending
  /\ localStorage' = IF rendered.isLoaded
                       THEN <<JSONstringify(rendered.store, 0)>>
                       ELSE localStorage
  /\ persistPending' = FALSE
  /\ UNCHANGED <<store, isDefaultObject, isLoaded, rendered, loadPending,
                 stale, nextId, opening, calls, lastOp, arg, engineVars>>

\* The dependencies [store, isLoaded] of the persist effect are compared by
\* identity: every state object but defaultStore is new.
DepsChanged ==
  \/ rendered.isLoaded # isLoaded
  \/ ~(rendered.isDefaultObject /\ isDefaultObject)

Render ==
  /\ stale
  /\ ~loadPending
  /\ ~persistPending
  /\ rendered' = [store |-> store, isDefaultObject |-> isDefaultObject,
                  isLoaded |-> isLoaded]
  /\ persistPending' = DepsChanged
  /\ stale' = FALSE
  /\ UNCHANGED <<store, isDefaultObject, isLoaded, loadPending, localStorage,
                 nextId, opening, calls, lastOp, arg, engineVars>>

createAccount(balance) ==
  LET newAccount == MkAccount(nextId + 1, balance)
  IN /\ StoreCalled("createAccount", balance, newAccount)
     /\ setStore([store EXCEPT !.accounts = Append(@, newAccount)])
     /\ nextId' = nextId + 1
     /\ opening' = Append(opening, newAccount)
     /\ UNCHANGED <<isLoaded, rendered, loadPending, persistPending,
                    localStorage>>

updateAccount(accountId, updates) ==
  /\ StoreCalled("updateAccount", <<accountId, updates>>, Void)
  /\ setStore([store EXCEPT !.accounts =
                 [i \in DOMAIN @ |-> IF @[i].id = accountId
                                       THEN Spread(@[i], updates)
                                       ELSE @[i]]])
  /\ UNCHANGED <<isLoaded, rendered, loadPending, persistPending,
                 localStorage, nextId, opening>>

deleteAccount(accountId) ==
  /\ StoreCalled("deleteAccount", accountId, Void)
  /\ setStore([store EXCEPT
                 !.accounts = SelectSeq(@, LAMBDA acc : acc.id # accountId),
                 !.transactions =
                   SelectSeq(@, LAMBDA txn : txn.accountId # accountId)])
  /\ UNCHANGED <<isLoaded, rendered, loadPending, persistPending,
                 localStorage, nextId, opening>>

addTransaction(accountId, type, amount) ==
  LET newTransaction == MkTransaction(nextId + 1, accountId, type, amount)
      balanceChange == IF type = "income" THEN amount
                       ELSE IF type = "expense" THEN -amount
                       ELSE 0
  IN /\ StoreCalled("addTransaction", <<accountId, type, amount>>,
                    newTransaction)
     /\ setStore([store EXCEPT
                    !.accounts = AddToBalance(@, accountId, balanceChange),
                    !.transactions = Append(@, newTransaction)])
     /\ nextId' = nextId + 1
     /\ UNCHANGED <<isLoaded, rendered, loadPending, persistPending,
                    localStorage, opening>>

updateTransaction(transactionId, updates) ==
  /\ StoreCalled("updateTransaction", <<transactionId, updates>>, Void)
  /\ IF transactionId \notin TransactionIdsOf(store)
       THEN UNCHANGED <<store, isDefaultObject, stale>>
       ELSE LET oldTransaction == FindTransaction(store, transactionId)
                updatedTransactions ==
                  [i \in DOMAIN store.transactions |->
                     IF store.transactions[i].id = transactionId
                       THEN Spread(store.transactions[i], updates)
                       ELSE store.transactions[i]]
                oldAmount == IF oldTransaction.type = "income"
                               THEN oldTransaction.amount
                               ELSE -oldTransaction.amount
                newType == IF "type" \in DOMAIN updates
                             THEN updates.type ELSE oldTransaction.type
                newMagnitude ==
                  IF "amount" \in DOMAIN updates
                    THEN OrElse(updates.amount, oldTransaction.amount)
                    ELSE oldTransaction.amount
                newAmount == IF newType = "income"
                               THEN newMagnitude ELSE -newMagnitude
                balanceDifference == newAmount - oldAmount
                updatedAccounts ==
                  IF "amount" \in DOMAIN updates \/ "type" \in DOMAIN updates
                    THEN AddToBalance(store.accounts,
                                      oldTransaction.accountId,
                                      balanceDifference)
                    ELSE store.accounts
            IN setStore([store EXCEPT !.accounts = updatedAccounts,
                                      !.transactions = updatedTransactions])
  /\ UNCHANGED <<isLoaded, rendered, loadPending, persistPending,
                 localStorage, nextId, opening>>

deleteTransaction(transactionId) ==
  /\ StoreCalled("deleteTransaction", transactionId, Void)
  /\ IF transactionId \notin TransactionIdsOf(store)
       THEN UNCHANGED <<store, isDefaultObject, stale>>
       ELSE LET transaction == FindTransaction(store, transactionId)
                balanceChange == IF transaction.type = "income"
                                   THEN -transaction.amount
                                   ELSE transaction.amount
            IN setStore([store EXCEPT
                 !.accounts = AddToBalance(@, transaction.accountId,
                                           balanceChange),
                 !.transactions =
                   SelectSeq(@, LAMBDA txn : txn.id # transactionId)])
  /\ UNCHANGED <<isLoaded, rendered, loadPending, persistPending,
                 localStorage, nextId, opening>>

clearAllData ==
  /\ StoreCalled("clearAllData", Void, Void)
  /\ setStoreDefault
  /\ localStorage' = <<>>
  /\ UNCHANGED <<isLoaded, rendered, loadPending, persistPending, nextId,
                 opening>>

\* JSON.stringify(store, null, 2) of the store of the last render
exportStore == JSONstringify(rendered.store, 2)

importStore(jsonData) ==
  /\ StoreCalled("importData", jsonData, jsonData.valid)
  /\ IF jsonData.valid
       THEN /\ setStore(JSONparse(jsonData))
            /\ localStorage' = <<jsonData>>
       ELSE UNCHANGED <<store, isDefaultObject, stale, localStorage>>
  /\ UNCHANGED <<isLoaded, rendered, loadPending, persistPending, nextId,
                 opening>>

\* The updates the callers of updateTransaction pass: one field each.
TransactionUpdates(s) ==
  {[amount |-> a] : a \in UpdatedAmounts}
    \cup {[type |-> t] : t \in TransactionTypes}
    \cup {[accountId |-> i] : i \in AccountIdsOf(s)}

TransactionNext ==
  \/ LoadEffect
  \/ PersistEffect
  \/ Render
  \/ \E balance \in OpeningBalances : createAccount(balance)
  \/ \E accountId \in AccountIdsOf(store), type \in TransactionTypes,
        amount \in Amounts : addTransaction(accountId, type, amount)
  \/ \E transactionId \in 1..nextId, updates \in TransactionUpdates(store) :
       updateTransaction(transactionId, updates)
  \/ \E transactionId \in 1..nextId : deleteTransaction(transactionId)

\* The hook mounted in a browser with nothing saved, and its accounts and
\* transactions operated on.
TransactionSpec == Init /\ [][TransactionNext]_vars

StoredAtMount == {<<>>, <<JSONstringify(SavedStore, 0)>>, <<NotJSON>>}

ImportInputs == {JSONstringify(SavedStore, 2), NotJSON}

StoreInit == NewEngine /\ \E item \in StoredAtMount : Mounted(item)

StoreNext ==
  \/ LoadEffect
  \/ PersistEffect
  \/ Render
  \/ \E balance \in OpeningBalances : createAccount(balance)
  \/ \E accountId \in AccountIdsOf(store) :
       updateAccount(accountId, [balance |-> 0])
  \/ \E accountId \in AccountIdsOf(store) : deleteAccount(accountId)
  \/ \E accountId \in AccountIdsOf(store), amount \in Amounts :
       addTransaction(accountId, "expense", amount)
  \/ \E transactionId \in TransactionIdsOf(store) :
       deleteTransaction(transactionId)
  \/ clearAllData
  \/ \E jsonData \in ImportInputs \cup {exportStore} : importStore(jsonData)

\* The hook mounted in a browser that may hold a saved store, and operated
\* on through all its kinds of operation.
StoreSpec == StoreInit /\ [][StoreNext]_vars

(***************************************************************************)
(* Properties                                                              *)
(***************************************************************************)
RECURSIVE SumOfEntries(_, _)
SumOfEntries(f, S) ==
  IF S = {} THEN 0
  ELSE LET x == CHOOSE y \in S : TRUE
       IN  f[x] + SumOfEntries(f, S \ {x})

IsStored(m, e) == \E i \in 1..Len(m) : m[i] = e

Ids(m) == [i \in 1..Len(m) |-> m[i].id]

AddOps == {"addAsset", "addLiability", "addIncomeStream", "addExpense"}

RemoveOps == {"removeAsset", "removeLiability", "removeIncomeStream", "removeExpense"}

\* C1: in every reachable state the net worth is total assets minus total
\* liabilities, each breakdown has an entry for every category of its
\* enumeration (8 asset types, 6 liability types), the entry of a category
\* with no stored entity is 0, and the entries of a breakdown sum to the total.
C1_AggregatesConsistent ==
  /\ calculateNetWorth = calculateTotalAssets - calculateTotalLiabilities
  /\ DOMAIN getAssetBreakdown = AccountType
  /\ Cardinality(DOMAIN getAssetBreakdown) = 8
  /\ DOMAIN getLiabilityBreakdown = LiabilityType
  /\ Cardinality(DOMAIN getLiabilityBreakdown) = 6
  /\ \A t \in AccountType :
       (\A i \in 1..Len(assets) : assets[i].type # t) => getAssetBreakdown[t] = 0
  /\ \A t \in LiabilityType :
       (\A i \in 1..Len(liabilities) : liabilities[i].type # t)
         => getLiabilityBreakdown[t] = 0
  /\ SumOfEntries(getAssetBreakdown, AccountType) = calculateTotalAssets
  /\ SumOfEntries(getLiabilityBreakdown, LiabilityType) = calculateTotalLiabilities

\* Two assets of different types and a liability are stored, all worth something.
C1_Witness ==
  /\ Len(assets) = 2
  /\ assets[1].type # assets[2].type
  /\ getAssetBreakdown[assets[1].type] = 90
  /\ getAssetBreakdown[assets[2].type] = 90
  /\ Len(liabilities) = 1
  /\ calculateTotalLiabilities = 90
  /\ calculateNetWorth = 90

\* What C2 asks of one step of the engine.
C2_AddStep ==
  /\ lastOp' = "addAsset" =>
       /\ threw' <=> (arg'.id = "" \/ arg'.name = "" \/ arg'.value < 0)
       /\ ~threw' => IsStored(assets', arg')
  /\ lastOp' = "addLiability" =>
       /\ threw' <=> (arg'.id = "" \/ arg'.name = "" \/ arg'.balance < 0
                        \/ arg'.interestRate < 0)
       /\ ~threw' => IsStored(liabilities', arg')
  /\ lastOp' = "addIncomeStream" =>
       /\ threw' <=> (arg'.id = "" \/ arg'.name = "" \/ arg'.monthlyAmount < 0)
       /\ ~threw' => IsStored(incomeStreams', arg')
  /\ lastOp' = "addExpense" =>
       /\ threw' <=> (arg'.id = "" \/ arg'.name = "" \/ arg'.monthlyAmount < 0)
       /\ ~threw' => IsStored(expenses', arg')
  /\ (lastOp' \in AddOps /\ threw') =>
       UNCHANGED <<assets, liabilities, incomeStreams, expenses, netWorthHistory>>

\* C2: an add call throws exactly when the entity's id is empty, its name is
\* empty, its value / balance / monthlyAmount is negative or (liabilities) its
\* interestRate is negative; when it throws, the four collections and the
\* history are unchanged; when it does not, the entity is stored.
C2_AddValidation == [][C2_AddStep]_vars

\* addLiability has thrown on a liability whose only fault is its interest
\* rate, with a non-empty ledger and history left as they were.
C2_Witness ==
  /\ lastOp = "addLiability"
  /\ threw
  /\ arg.id # "" /\ arg.name # "" /\ arg.balance >= 0 /\ arg.interestRate < 0
  /\ Len(assets) > 0
  /\ Len(netWorthHistory) > 0

\* C3: in every reachable state every stored entity has a non-empty id and
\* name and non-negative value / balance / interestRate / monthlyAmount, so
\* total assets and total liabilities are >= 0.
C3_StoredEntitiesValid ==
  /\ \A i \in 1..Len(assets) :
       assets[i].id # "" /\ assets[i].name # "" /\ assets[i].value >= 0
  /\ \A i \in 1..Len(liabilities) :
       /\ liabilities[i].id # "" /\ liabilities[i].name # ""
       /\ liabilities[i].balance >= 0 /\ liabilities[i].interestRate >= 0
  /\ \A i \in 1..Len(incomeStreams) :
       /\ incomeStreams[i].id # "" /\ incomeStreams[i].name # ""
       /\ incomeStreams[i].monthlyAmount >= 0
  /\ \A i \in 1..Len(expenses) :
       /\ expenses[i].id # "" /\ expenses[i].name # ""
       /\ expenses[i].monthlyAmount >= 0
  /\ calculateTotalAssets >= 0
  /\ calculateTotalLiabilities >= 0

\* importData has thrown part of the way through a bundle: the entities before
\* the invalid one are stored.
C3_Witness ==
  /\ lastOp = "importData"
  /\ threw
  /\ \E i \in 1..Len(arg.assets) : arg.assets[i].value < 0
  /\ IsStored(assets, arg.assets[1])
  /\ Len(liabilities) > 0

\* What C4 asks of one step of the engine.
C4_UpsertStep ==
  /\ (lastOp' = "addAsset" /\ ~threw') =>
       /\ Cardinality({i \in 1..Len(assets') : assets'[i].id = arg'.id}) = 1
       /\ IsStored(assets', arg')
       /\ \A i \in 1..Len(assets) :
            assets[i].id # arg'.id => IsStored(assets', assets[i])
       /\ \A i \in 1..Len(assets') :
            assets'[i].id # arg'.id => IsStored(assets, assets'[i])
       /\ IF \E i \in 1..Len(assets) : assets[i].id = arg'.id
          THEN Ids(assets') = Ids(assets)
          ELSE assets' = Append(assets, arg')
       /\ UNCHANGED <<liabilities, incomeStreams, expenses>>
  /\ (lastOp' = "addLiability" /\ ~threw') =>
       /\ Cardinality({i \in 1..Len(liabilities') : liabilities'[i].id = arg'.id}) = 1
       /\ IsStored(liabilities', arg')
       /\ \A i \in 1..Len(liabilities) :
            liabilities[i].id # arg'.id => IsStored(liabilities', liabilities[i])
       /\ \A i \in 1..Len(liabilities') :
            liabilities'[i].id # arg'.id => IsStored(liabilities, liabilities'[i])
       /\ IF \E i \in 1..Len(liabilities) : liabilities[i].id = arg'.id
          THEN Ids(liabilities') = Ids(liabilities)
          ELSE liabilities' = Append(liabilities, arg')
       /\ UNCHANGED <<assets, incomeStreams, expenses>>
  /\ (lastOp' = "addIncomeStream" /\ ~threw') =>
       /\ Cardinality({i \in 1..Len(incomeStreams') : incomeStreams'[i].id = arg'.id}) = 1
       /\ IsStored(incomeStreams', arg')
       /\ \A i \in 1..Len(incomeStreams) :
            incomeStreams[i].id # arg'.id => IsStored(incomeStreams', incomeStreams[i])
       /\ \A i \in 1..Len(incomeStreams') :
            incomeStreams'[i].id # arg'.id => IsStored(incomeStreams, incomeStreams'[i])
       /\ IF \E i \in 1..Len(incomeStreams) : incomeStreams[i].id = arg'.id
          THEN Ids(incomeStreams') = Ids(incomeStreams)
          ELSE incomeStreams' = Append(incomeStreams, arg')
       /\ UNCHANGED <<assets, liabilities, expenses>>
  /\ (lastOp' = "addExpense" /\ ~threw') =>
       /\ Cardinality({i \in 1..Len(expenses') : expenses'[i].id = arg'.id}) = 1
       /\ IsStored(expenses', arg')
       /\ \A i \in 1..Len(expenses) :
            expenses[i].id # arg'.id => IsStored(expenses', expenses[i])
       /\ \A i \in 1..Len(expenses') :
            expenses'[i].id # arg'.id => IsStored(expenses, expenses'[i])
       /\ IF \E i \in 1..Len(expenses) : expenses[i].id = arg'.id
          THEN Ids(expenses') = Ids(expenses)
          ELSE expenses' = Append(expenses, arg')
       /\ UNCHANGED <<assets, liabilities, incomeStreams>>
  /\ (lastOp = "removeAsset" /\ ret = TRUE /\ lastOp' = "addAsset" /\ ~threw'
        /\ arg'.id = arg) =>
       /\ Len(assets') = Len(assets) + 1
       /\ assets'[Len(assets')] = arg'
       /\ SubSeq(assets', 1, Len(assets)) = assets
  /\ (lastOp = "removeLiability" /\ ret = TRUE /\ lastOp' = "addLiability" /\ ~threw'
        /\ arg'.id = arg) =>
       /\ Len(liabilities') = Len(liabilities) + 1
       /\ liabilities'[Len(liabilities')] = arg'
       /\ SubSeq(liabilities', 1, Len(liabilities)) = liabilities
  /\ (lastOp = "removeIncomeStream" /\ ret = TRUE /\ lastOp' = "addIncomeStream" /\ ~threw'
        /\ arg'.id = arg) =>
       /\ Len(incomeStreams') = Len(incomeStreams) + 1
       /\ incomeStreams'[Len(incomeStreams')] = arg'
       /\ SubSeq(incomeStreams', 1, Len(incomeStreams)) = incomeStreams
  /\ (lastOp = "removeExpense" /\ ret = TRUE /\ lastOp' = "addExpense" /\ ~threw'
        /\ arg'.id = arg) =>
       /\ Len(expenses') = Len(expenses) + 1
       /\ expenses'[Len(expenses')] = arg'
       /\ SubSeq(expenses', 1, Len(expenses)) = expenses

\* C4: a successful add call is an upsert: afterwards its collection holds
\* exactly one entity with the id, equal to the argument, the entities with
\* other ids are the same, and the other three collections are unchanged.  A
\* new id is appended at the end; an existing id keeps its place and the size
\* stays; an id removed by the previous call and added again goes to the end.
C4_Upsert == [][C4_UpsertStep]_vars

\* addAsset has overwritten the first of two stored assets with another value:
\* the id is still first and the second asset is still there.
C4_Witness ==
  /\ lastOp = "addAsset"
  /\ ~threw
  /\ Len(assets) = 2
  /\ assets[1] = arg
  /\ arg.value = 0
  /\ assets[2].id # arg.id

\* What C5 asks of one step of the engine.
C5_RemoveStep ==
  /\ lastOp' = "removeAsset" =>
       /\ ~threw'
       /\ ret' = (\E i \in 1..Len(assets) : assets[i].id = arg')
       /\ \A i \in 1..Len(assets') : assets'[i].id # arg'
       /\ assets' = SelectSeq(assets, LAMBDA x : x.id # arg')
       /\ UNCHANGED <<liabilities, incomeStreams, expenses, netWorthHistory>>
  /\ lastOp' = "removeLiability" =>
       /\ ~threw'
       /\ ret' = (\E i \in 1..Len(liabilities) : liabilities[i].id = arg')
       /\ \A i \in 1..Len(liabilities') : liabilities'[i].id # arg'
       /\ liabilities' = SelectSeq(liabilities, LAMBDA x : x.id # arg')
       /\ UNCHANGED <<assets, incomeStreams, expenses, netWorthHistory>>
  /\ lastOp' = "removeIncomeStream" =>
       /\ ~threw'
       /\ ret' = (\E i \in 1..Len(incomeStreams) : incomeStreams[i].id = arg')
       /\ \A i \in 1..Len(incomeStreams') : incomeStreams'[i].id # arg'
       /\ incomeStreams' = SelectSeq(incomeStreams, LAMBDA x : x.id # arg')
       /\ UNCHANGED <<assets, liabilities, expenses, netWorthHistory>>
  /\ lastOp' = "removeExpense" =>
       /\ ~threw'
       /\ ret' = (\E i \in 1..Len(expenses) : expenses[i].id = arg')
       /\ \A i \in 1..Len(expenses') : expenses'[i].id # arg'
       /\ expenses' = SelectSeq(expenses, LAMBDA x : x.id # arg')
       /\ UNCHANGED <<assets, liabilities, incomeStreams, netWorthHistory>>

\* C5: a remove call returns true exactly when its collection held the id,
\* and never throws; afterwards the id is not stored, the other entities of
\* the collection keep their values and order, and the other three
\* collections and the history are unchanged.
C5_Remove == [][C5_RemoveStep]_vars

\* removeAsset has removed the first of two stored assets and returned true;
\* the second one is left, beside a stored liability.
C5_Witness ==
  /\ lastOp = "removeAsset"
  /\ ret = TRUE
  /\ arg = "a1"
  /\ Len(assets) = 1
  /\ assets[1].id = "a2"
  /\ Len(liabilities) > 0

\* C6: in every reachable state no metric is NaN (no computation fails), the
\* debt-to-income ratio and the savings rate are 0 when the total active
\* monthly income is 0, the liquidity ratio is 0 when the total monthly
\* expenses are 0, and the investment ratio and every asset allocation entry
\* are 0 when the total assets are 0.
C6_ZeroDenominators ==
  /\ calculateDebtToIncomeRatio # NaN
  /\ calculateDebtToWorthRatio # NaN
  /\ calculateSavingsRate # NaN
  /\ calculateLiquidityRatio # NaN
  /\ calculateInvestmentRatio # NaN
  /\ calculateEmergencyFundMonths # NaN
  /\ calculateNetWorthGrowthRate(netWorthHistory) # NaN
  /\ \A t \in AccountType : getAssetAllocation[t] # NaN
  /\ calculateTotalMonthlyIncome = 0 =>
       calculateDebtToIncomeRatio = Zero /\ calculateSavingsRate = Zero
  /\ calculateTotalMonthlyExpenses = 0 => calculateLiquidityRatio = Zero
  /\ calculateTotalAssets = 0 =>
       /\ calculateInvestmentRatio = Zero
       /\ \A t \in AccountType : getAssetAllocation[t] = Zero

\* An income stream is stored but inactive, a liability has a payment, there
\* are expenses, and the only asset is worth 0.
C6_Witness ==
  /\ Len(incomeStreams) > 0
  /\ incomeStreams[1].monthlyAmount > 0
  /\ calculateTotalMonthlyIncome = 0
  /\ Len(liabilities) > 0
  /\ liabilities[1].monthlyPayment > 0
  /\ calculateTotalMonthlyExpenses > 0
  /\ Len(assets) > 0
  /\ calculateTotalAssets = 0

\* C7: the debt-to-worth ratio is (total liabilities / net worth) x 100 when
\* the net worth is > 0, exactly 0 when it is 0 and Infinity when it is < 0;
\* so it is Infinity or finite and >= 0, and Infinity exactly when the total
\* liabilities exceed the total assets.
C7_DebtToWorth ==
  LET r == calculateDebtToWorthRatio
      netWorth == calculateTotalAssets - calculateTotalLiabilities
  IN  /\ netWorth > 0 =>
           IsFinite(r) /\ r.num * netWorth = calculateTotalLiabilities * 100 * r.den
      /\ netWorth = 0 => r = Zero
      /\ netWorth < 0 => r = Infinity
      /\ r = Infinity \/ (IsFinite(r) /\ r.num >= 0)
      /\ r = Infinity <=> calculateTotalLiabilities > calculateTotalAssets

\* Assets equal liabilities, both positive: the net worth is 0.
C7_Witness ==
  /\ calculateTotalLiabilities > 0
  /\ calculateTotalAssets = calculateTotalLiabilities
  /\ calculateDebtToWorthRatio = Zero

\* C8: the risk level is decided by the number n of risk factors alone: low
\* for 0, moderate for 1..2, high for 3..4, critical for 5 and more.
C8_RiskLevelByCount ==
  LET r == performRiskAssessment
      n == Len(r.riskFactors)
  IN  /\ n = 0 => r.riskLevel = "low"
      /\ (1 <= n /\ n <= 2) => r.riskLevel = "moderate"
      /\ (3 <= n /\ n <= 4) => r.riskLevel = "high"
      /\ n >= 5 => r.riskLevel = "critical"

\* Five or more factors have fired.
C8_Witness ==
  /\ Len(performRiskAssessment.riskFactors) >= 5
  /\ performRiskAssessment.riskLevel = "critical"

\* The factors in the order of their rules, and the recommendation of each.
FactorOrder ==
  << "High debt-to-income ratio (>43%)",
     "Elevated debt-to-income ratio (>35%)",
     "Low liquidity (less than 1 month of expenses)",
     "Insufficient emergency fund (less than 3 months)",
     "Emergency fund insufficient",
     "Low savings rate",
     "Negative net worth" >>

RecommendationOrder ==
  << "Consider debt reduction strategies or increasing income",
     "Monitor debt levels closely",
     "Build emergency fund to cover at least 3-6 months of expenses",
     "Aim to save 3-6 months of expenses",
     "Prioritize building emergency savings",
     "Increase savings rate to at least 10-15% of income",
     "Focus on asset building and debt reduction" >>

Rank(f) == CHOOSE i \in 1..Len(FactorOrder) : FactorOrder[i] = f

\* C9: the risk factors are exactly those of the rules that fire, in the order
\* of the rules: debt-to-income > 43, debt-to-income > 35, liquidity < 1 or
\* else liquidity < 3, emergency fund months < 3, savings rate < 10, net
\* worth < 0, all strict; rule 1 implies rule 2; the i-th recommendation is
\* the one of the i-th factor; there are at most 6 entries.
C9_RiskFactors ==
  LET r == performRiskAssessment
      f == r.riskFactors
      has(k) == \E i \in 1..Len(f) : f[i] = FactorOrder[k]
      dti == calculateDebtToIncomeRatio
      liq == calculateLiquidityRatio
      em == calculateEmergencyFundMonths
      sr == calculateSavingsRate
  IN  /\ \A i \in 1..Len(f) : \E k \in 1..Len(FactorOrder) : f[i] = FactorOrder[k]
      /\ \A i, j \in 1..Len(f) : i < j => Rank(f[i]) < Rank(f[j])
      /\ has(1) <=> dti.num > 43 * dti.den
      /\ has(2) <=> dti.num > 35 * dti.den
      /\ has(3) <=> liq.num < 1 * liq.den
      /\ has(4) <=> (~(liq.num < 1 * liq.den) /\ liq.num < 3 * liq.den)
      /\ has(5) <=> em.num < 3 * em.den
      /\ has(6) <=> sr.num < 10 * sr.den
      /\ has(7) <=> calculateNetWorth < 0
      /\ ~(has(3) /\ has(4))
      /\ has(1) => has(2)
      /\ Len(r.recommendations) = Len(f)
      /\ \A i \in 1..Len(f) : r.recommendations[i] = RecommendationOrder[Rank(f[i])]
      /\ Len(f) <= 6

\* All six rules fire at once.
C9_Witness ==
  /\ Len(performRiskAssessment.riskFactors) = 6
  /\ performRiskAssessment.riskFactors[1] = "High debt-to-income ratio (>43%)"
  /\ performRiskAssessment.riskFactors[6] = "Negative net worth"

\* What C10 asks of one step of the engine.
C10_BootstrapStep ==
  lastOp' = "generateAnalytics" =>
    /\ ret'.netWorthHistory # <<>>
    /\ netWorthHistory = <<>> =>
         /\ Len(netWorthHistory') = 1
         /\ netWorthHistory'[1].totalAssets = calculateTotalAssets
         /\ netWorthHistory'[1].totalLiabilities = calculateTotalLiabilities
         /\ netWorthHistory'[1].netWorth = calculateNetWorth
         /\ netWorthHistory'[1].assetBreakdown = getAssetBreakdown
         /\ netWorthHistory'[1].liabilityBreakdown = getLiabilityBreakdown
         /\ ret'.netWorthHistory = netWorthHistory'
    /\ netWorthHistory # <<>> =>
         /\ netWorthHistory' = netWorthHistory
         /\ ret'.netWorthHistory = netWorthHistory

\* C10: generateAnalytics() never returns an empty netWorthHistory: on an
\* empty history it appends exactly one snapshot of the current ledger and
\* the report holds it; on a non-empty history it appends nothing and the
\* report holds the history as it was.
C10_LazyBootstrap == [][C10_BootstrapStep]_vars

\* generateAnalytics() has returned on a history of one snapshot that was
\* taken before the ledger changed.
C10_Witness ==
  /\ lastOp = "generateAnalytics"
  /\ Len(netWorthHistory) = 1
  /\ ret.netWorthHistory = netWorthHistory
  /\ netWorthHistory[1].totalAssets # calculateTotalAssets

\* A report with its timestamp blanked.
WithoutTimestamp(report) == [report EXCEPT !.timestamp = 0]

\* What the unamended C11 asks of one step of the engine.
C11_PureStep ==
  lastOp' = "generateAnalytics" =>
    /\ UNCHANGED <<assets, liabilities, incomeStreams, expenses>>
    /\ netWorthHistory' = netWorthHistory
    /\ lastOp = "generateAnalytics" =>
         WithoutTimestamp(ret') = WithoutTimestamp(ret)

\* C11 as claimed: report generation generateAnalytics(), like every read
\* operation, leaves the four entity collections and the snapshot history
\* unchanged in every reachable state, one with an empty history included,
\* and two calls in a row return identical results apart from the timestamp.
C11_ReadsArePure == [][C11_PureStep]_vars

\* What the amended C11 asks of one step of the engine.
C11_AmendedStep ==
  lastOp' = "generateAnalytics" =>
    /\ UNCHANGED <<assets, liabilities, incomeStreams, expenses>>
    /\ netWorthHistory # <<>> => netWorthHistory' = netWorthHistory
    /\ netWorthHistory = <<>> =>
         /\ Len(netWorthHistory') = 1
         /\ netWorthHistory'[1].date = Now
    /\ lastOp = "generateAnalytics" =>
         /\ netWorthHistory' = netWorthHistory
         /\ WithoutTimestamp(ret') = WithoutTimestamp(ret)

\* C11, amended: generateAnalytics() leaves the four entity collections
\* unchanged in every reachable state; it leaves the snapshot history
\* unchanged when the history is not empty, and on an empty history it
\* appends one snapshot dated now; a second call right after a first one
\* changes nothing and returns the same report apart from the timestamp.
\* (The getters and the calculate/get metric functions are state functions
\* of the model: they read the fields and assign none.)
C11_ReadsPureButBootstrap == [][C11_AmendedStep]_vars

\* generateAnalytics() has returned on a ledger that is not empty and a
\* history whose one snapshot was taken by the call before it.
C11_Witness ==
  /\ lastOp = "generateAnalytics"
  /\ Len(netWorthHistory) = 1
  /\ calls = netWorthHistory[1].date + 2
  /\ assets # <<>>
  /\ ret.netWorthHistory = netWorthHistory

\* What C12 asks of one step of the engine.
C12_RoundTripStep ==
  (/\ saved # <<>>
   /\ lastOp' = "importData"
   /\ arg' = BundleOf(saved[1])
   /\ assets = <<>> /\ liabilities = <<>>
   /\ incomeStreams = <<>> /\ expenses = <<>>) =>
    /\ ~threw'
    /\ assets' = saved[1].assets
    /\ liabilities' = saved[1].liabilities
    /\ incomeStreams' = saved[1].incomeStreams
    /\ expenses' = saved[1].expenses

\* C12: round trip.  With D the result of exportData() in any reachable
\* state, importData(D) on an engine whose four collections are empty (after
\* reset(), or freshly constructed) raises no error and leaves getAssets(),
\* getLiabilities(), getIncomeStreams() and getExpenses() equal to D.assets,
\* D.liabilities, D.incomeStreams and D.expenses, element for element in the
\* same order.
C12_RoundTrip == [][C12_RoundTripStep]_vars

\* An export of two assets in the order a2, a1 and of one entity of each other
\* kind has been imported again after the engine was emptied.
C12_Witness ==
  /\ lastOp = "importData"
  /\ saved # <<>>
  /\ arg = BundleOf(saved[1])
  /\ netWorthHistory = <<>>
  /\ Ids(assets) = <<"a2", "a1">>
  /\ assets = saved[1].assets
  /\ liabilities = saved[1].liabilities /\ liabilities # <<>>
  /\ incomeStreams = saved[1].incomeStreams /\ incomeStreams # <<>>
  /\ expenses = saved[1].expenses /\ expenses # <<>>

\* The fields of the engine, and the fields new FinancialEngine(c) sets.
EngineFields ==
  [assets |-> assets, liabilities |-> liabilities,
   incomeStreams |-> incomeStreams, expenses |-> expenses,
   netWorthHistory |-> netWorthHistory, currency |-> currency]

FreshEngineFields(c) ==
  [assets |-> <<>>, liabilities |-> <<>>, incomeStreams |-> <<>>,
   expenses |-> <<>>, netWorthHistory |-> <<>>, currency |-> c]

\* What C13 asks of one step of the engine.
C13_ResetStep ==
  lastOp' = "reset" =>
    /\ ~threw'
    /\ assets' = <<>> /\ liabilities' = <<>>
    /\ incomeStreams' = <<>> /\ expenses' = <<>>
    /\ netWorthHistory' = <<>>
    /\ calculateTotalAssets' = 0
    /\ calculateTotalLiabilities' = 0
    /\ calculateNetWorth' = 0
    /\ calculateTotalMonthlyIncome' = 0
    /\ calculateTotalMonthlyExpenses' = 0
    /\ currency' = currency
    /\ EngineFields' = FreshEngineFields(currency)

\* C13: reset(), in one call and from any reachable state, empties the four
\* entity collections and the snapshot history; afterwards total assets,
\* total liabilities, net worth, monthly income and monthly expenses are 0,
\* the reporting currency is unchanged, and every field of the engine has
\* the value the constructor gives it for that currency, so that the engine
\* behaves like a freshly constructed one from then on.
C13_Reset == [][C13_ResetStep]_vars

\* reset() has returned after an exportData() that found assets and
\* liabilities in the ledger and left a snapshot in the history.
C13_Witness ==
  /\ lastOp = "reset"
  /\ calls >= 3
  /\ saved # <<>>
  /\ saved[1].assets # <<>>
  /\ saved[1].liabilities # <<>>
  /\ EngineFields = FreshEngineFields("USD")

IsPrefix(s, t) == Len(s) <= Len(t) /\ SubSeq(t, 1, Len(s)) = s

\* What C14 asks of one step of the engine.
C14_HistoryStep ==
  /\ lastOp' \notin {"clearNetWorthHistory", "reset"} =>
       /\ IsPrefix(netWorthHistory, netWorthHistory')
       /\ Len(netWorthHistory') <= Len(netWorthHistory) + 1
       /\ \A i \in 1..Len(netWorthHistory) :
            netWorthHistory'[i] = netWorthHistory[i]
  /\ Len(netWorthHistory') > Len(netWorthHistory) =>
       \/ lastOp' = "createNetWorthSnapshot"
       \/ /\ lastOp' \in {"generateAnalytics", "exportData"}
          /\ netWorthHistory = <<>>
  /\ lastOp' \in AddOps \cup RemoveOps \cup {"importData"} =>
       netWorthHistory' = netWorthHistory
  /\ lastOp' \in {"clearNetWorthHistory", "reset"} => netWorthHistory' = <<>>

\* C14: the snapshot history is append-only between bulk clears.  Every call
\* other than clearNetWorthHistory() and reset() leaves the history it found
\* as a prefix of the history it leaves, every snapshot unchanged field for
\* field, also when add, remove or importData change the ledger afterwards;
\* the history grows by one entry at most, and only through
\* createNetWorthSnapshot() or the snapshot a report takes on an empty
\* history; the two bulk clears empty it, and no call removes or reorders
\* single entries.
C14_AppendOnly == [][C14_HistoryStep]_vars

\* An add call has changed the ledger after two snapshots were taken: both are
\* in the history as they were.
C14_Witness ==
  /\ lastOp \in AddOps
  /\ ~threw
  /\ Len(netWorthHistory) = 2
  /\ netWorthHistory[2].totalAssets + netWorthHistory[2].totalLiabilities
       # calculateTotalAssets + calculateTotalLiabilities

\* What C15 asks of one step of the engine.
C15_SnapshotStep ==
  /\ lastOp' = "createNetWorthSnapshot" =>
       /\ ~threw'
       /\ Len(netWorthHistory') = Len(netWorthHistory) + 1
       /\ netWorthHistory'[Len(netWorthHistory')] = ret'
       /\ ret'.totalAssets = calculateTotalAssets
       /\ ret'.totalLiabilities = calculateTotalLiabilities
       /\ ret'.assetBreakdown = getAssetBreakdown
       /\ ret'.liabilityBreakdown = getLiabilityBreakdown
       /\ ret'.netWorth = ret'.totalAssets - ret'.totalLiabilities
       /\ ret'.currency = currency
       /\ ret'.date = arg'
       /\ UNCHANGED <<assets, liabilities, incomeStreams, expenses>>
  /\ \A i \in 1..Len(netWorthHistory') :
       netWorthHistory'[i].netWorth =
         netWorthHistory'[i].totalAssets - netWorthHistory'[i].totalLiabilities

\* C15: createNetWorthSnapshot(date) appends as the last entry of the
\* history, and returns, a record whose totalAssets, totalLiabilities,
\* assetBreakdown and liabilityBreakdown are the aggregates of the ledger at
\* the call, whose netWorth is totalAssets - totalLiabilities, whose currency
\* is the engine's and whose date is the given date; the four collections
\* are unchanged; and after every call every snapshot in the history has
\* netWorth = totalAssets - totalLiabilities.
C15_Snapshot == [][C15_SnapshotStep]_vars

\* createNetWorthSnapshot(0) has returned a snapshot of assets and
\* liabilities that differ, as the second entry of the history.
C15_Witness ==
  /\ lastOp = "createNetWorthSnapshot"
  /\ arg = 0
  /\ calls > 1
  /\ Len(netWorthHistory) = 2
  /\ netWorthHistory[2] = ret
  /\ ret.date = 0
  /\ ret.totalAssets > 0
  /\ ret.totalLiabilities > 0
  /\ ret.netWorth > 0

\* What C16 asks of one step of the engine.
C16_ExportStep ==
  lastOp' = "exportData" =>
    /\ ret'.netWorthHistory = netWorthHistory'
    /\ ret'.netWorthHistory = ret'.analytics.netWorthHistory
    /\ ret'.assets = assets'
    /\ ret'.liabilities = liabilities'
    /\ ret'.incomeStreams = incomeStreams'
    /\ ret'.expenses = expenses'

\* C16: exportData() returns the full snapshot history.  In every reachable
\* state, one with an empty history before the call included, the
\* netWorthHistory of the result is the engine's history as it stands when
\* exportData() returns, and is the netWorthHistory of the analytics report
\* in the same result; the four entity lists of the result are the engine's.
C16_ExportFullHistory == [][C16_ExportStep]_vars

\* The collection m holds exactly the entities of S, in any order.
HoldsExactly(m, S) ==
  Len(m) = Cardinality(S) /\ {m[i] : i \in 1..Len(m)} = S

\* C17: on a fresh engine that holds exactly one checking asset of 5000, one
\* savings asset of 10000, one mortgage of balance 200000 and monthly payment
\* 1200, one active income stream of 6000 a month and one expense of 4000 a
\* month: total assets are 15000, total liabilities 200000, net worth
\* -185000, monthly net income 2000, the debt-to-income ratio 20, the
\* liquidity ratio 3.75, the debt-to-worth ratio Infinity, and the risk
\* factors include "Negative net worth".
C17_Scenario ==
  (/\ HoldsExactly(assets, ScenarioAssets)
   /\ HoldsExactly(liabilities, ScenarioLiabilities)
   /\ HoldsExactly(incomeStreams, ScenarioIncome)
   /\ HoldsExactly(expenses, ScenarioExpenses)) =>
    /\ calculateTotalAssets = 15000
    /\ calculateTotalLiabilities = 200000
    /\ calculateNetWorth = -185000
    /\ calculateMonthlyNetIncome = 2000
    /\ calculateDebtToIncomeRatio = Num(20)
    /\ calculateLiquidityRatio = [num |-> 15, den |-> 4]
    /\ calculateDebtToWorthRatio = Infinity
    /\ IsStored(performRiskAssessment.riskFactors, "Negative net worth")

\* The household's five entities are in the ledger.
C17_Witness ==
  /\ HoldsExactly(assets, ScenarioAssets)
  /\ HoldsExactly(liabilities, ScenarioLiabilities)
  /\ HoldsExactly(incomeStreams, ScenarioIncome)
  /\ HoldsExactly(expenses, ScenarioExpenses)
  /\ ~threw
  /\ netWorthHistory = <<>>

\* What C18 asks of the history h.
C18_GrowthOf(h) ==
  LET growth == calculateNetWorthGrowthRate(h)
      percent == calculateFinancialTrends(h).netWorthChangePercent
  IN  /\ growth = percent
      /\ Len(h) < 2 => growth = Zero
      /\ Len(h) >= 2 =>
           LET last == h[Len(h)].netWorth
               previous == h[Len(h) - 1].netWorth
           IN  /\ previous = 0 => growth = Zero
               /\ previous # 0 =>
                    /\ growth.den > 0
                    /\ growth.num * previous = (last - previous) * 100 * growth.den

\* What C18 asks of one step of the engine.
C18_GrowthStep ==
  /\ C18_GrowthOf(netWorthHistory)
  /\ C18_GrowthOf(netWorthHistory')
  /\ netWorthHistory' = netWorthHistory =>
       /\ calculateNetWorthGrowthRate(netWorthHistory')
            = calculateNetWorthGrowthRate(netWorthHistory)
       /\ calculateFinancialTrends(netWorthHistory').netWorthChangePercent
            = calculateFinancialTrends(netWorthHistory).netWorthChangePercent

\* C18: calculateNetWorthGrowthRate() and the netWorthChangePercent of
\* calculateFinancialTrends() are equal in every reachable state: 0 when the
\* history has fewer than two snapshots or the second-to-last snapshot's net
\* worth is 0, and otherwise ((last.netWorth - previous.netWorth) /
\* previous.netWorth) x 100 over the two most recent snapshots; a call that
\* changes the ledger and takes no snapshot leaves both as they were.
C18_GrowthRate == [][C18_GrowthStep]_vars

\* Two snapshots of different net worth, the earlier one not 0: the growth
\* rate is not 0.
C18_Witness ==
  /\ Len(netWorthHistory) >= 2
  /\ netWorthHistory[Len(netWorthHistory) - 1].netWorth # 0
  /\ calculateNetWorthGrowthRate(netWorthHistory) # Zero
  /\ calculateNetWorthGrowthRate(netWorthHistory).den = 1
  /\ calculateNetWorthGrowthRate(netWorthHistory).num < 0

\* 'increasing', 'decreasing' or 'stable' as a is greater than, less than or
\* equal to b.
DirectionOf(a, b) ==
  IF a > b THEN "increasing" ELSE IF a < b THEN "decreasing" ELSE "stable"

\* C19: calculateFinancialTrends() returns, with fewer than two snapshots,
\* netWorthTrend and debtTrend 'stable' and all four numeric fields 0, the
\* savingsTrendPercent included whatever the current savings rate; with two
\* or more snapshots, netWorthTrend is 'increasing', 'decreasing' or 'stable'
\* as the last snapshot's netWorth is greater than, less than or equal to
\* the previous one's, debtTrend the same over totalLiabilities,
\* savingsTrendPercent is the current calculateSavingsRate(), and
\* incomeGrowthPercent and expenseGrowthPercent are 0.
C19_Trends ==
  LET h == netWorthHistory
      t == calculateFinancialTrends(h)
  IN  /\ Len(h) < 2 =>
           /\ t.netWorthTrend = "stable"
           /\ t.debtTrend = "stable"
           /\ t.netWorthChangePercent = Zero
           /\ t.savingsTrendPercent = Zero
           /\ t.incomeGrowthPercent = Zero
           /\ t.expenseGrowthPercent = Zero
      /\ Len(h) >= 2 =>
           /\ t.netWorthTrend = DirectionOf(h[Len(h)].netWorth, h[Len(h) - 1].netWorth)
           /\ t.debtTrend = DirectionOf(h[Len(h)].totalLiabilities,
                                        h[Len(h) - 1].totalLiabilities)
           /\ t.savingsTrendPercent = calculateSavingsRate
           /\ t.incomeGrowthPercent = Zero
           /\ t.expenseGrowthPercent = Zero

\* Two snapshots, the later one with less debt and more net worth, on a ledger
\* whose savings rate is not 0.
C19_Witness ==
  /\ Len(netWorthHistory) = 2
  /\ calculateFinancialTrends(netWorthHistory).debtTrend = "decreasing"
  /\ calculateFinancialTrends(netWorthHistory).netWorthTrend = "increasing"
  /\ calculateSavingsRate # Zero
  /\ calculateFinancialTrends(netWorthHistory).savingsTrendPercent = calculateSavingsRate

\* The entities of the list of one kind in a bundle, tagged with the kind;
\* none when the list is absent.
Tagged(data, kind, list) ==
  IF kind \in data.present
  THEN [i \in 1..Len(list) |-> [kind |-> kind, entity |-> list[i]]]
  ELSE <<>>

\* The entities of a bundle in the order assets, liabilities, incomeStreams,
\* expenses, each list front to back.
InBundleOrder(data) ==
  Tagged(data, "assets", data.assets)
    \o Tagged(data, "liabilities", data.liabilities)
    \o Tagged(data, "incomeStreams", data.incomeStreams)
    \o Tagged(data, "expenses", data.expenses)

\* The entities of a bundle that precede its first invalid entity.
BeforeFirstInvalid(data) ==
  LET all == InBundleOrder(data)
      bad == {i \in 1..Len(all) : InvalidOf(all[i].kind, all[i].entity)}
      stop == IF bad = {} THEN Len(all) + 1
              ELSE CHOOSE i \in bad : \A j \in bad : i <= j
  IN  SubSeq(all, 1, stop - 1)

\* What a partial import of the entities "applied" asks of the collection of
\* one kind, old before the call and new after it.
C20_CollectionAfter(old, new, applied, kind) ==
  LET named == SelectSeq(applied, LAMBDA x : x.kind = kind)
      namedIds == {named[i].entity.id : i \in 1..Len(named)}
      LastNamed(id) ==
        named[CHOOSE i \in 1..Len(named) :
                /\ named[i].entity.id = id
                /\ \A j \in 1..Len(named) : named[j].entity.id = id => j <= i].entity
      FirstAt(id) ==
        CHOOSE i \in 1..Len(named) :
          /\ named[i].entity.id = id
          /\ \A j \in 1..Len(named) : named[j].entity.id = id => i <= j
  IN  /\ \A id \in namedIds : IsStored(new, LastNamed(id))
      /\ \A i \in 1..Len(old) : old[i].id \notin namedIds => IsStored(new, old[i])
      /\ \A i \in 1..Len(new) :
           new[i].id \in namedIds \/ \E j \in 1..Len(old) : old[j].id = new[i].id
      /\ \A i, j \in 1..Len(new) : new[i].id = new[j].id => i = j
      /\ IsPrefix(Ids(old), Ids(new))
      /\ \A i, j \in (Len(old) + 1)..Len(new) :
           i < j => FirstAt(new[i].id) < FirstAt(new[j].id)

\* What C20 asks of one step of the engine.
C20_ImportStep ==
  lastOp' = "importData" =>
    LET data == arg'
        applied == BeforeFirstInvalid(data)
    IN  /\ threw' <=> Len(applied) < Len(InBundleOrder(data))
        /\ C20_CollectionAfter(assets, assets', applied, "assets")
        /\ C20_CollectionAfter(liabilities, liabilities', applied, "liabilities")
        /\ C20_CollectionAfter(incomeStreams, incomeStreams', applied, "incomeStreams")
        /\ C20_CollectionAfter(expenses, expenses', applied, "expenses")
        /\ "assets" \notin data.present => assets' = assets
        /\ "liabilities" \notin data.present => liabilities' = liabilities
        /\ "incomeStreams" \notin data.present => incomeStreams' = incomeStreams
        /\ "expenses" \notin data.present => expenses' = expenses
        /\ netWorthHistory' = netWorthHistory

\* C20: importData(bundle) passes the entities of the bundle to the add call
\* of their kind in the order assets, liabilities, incomeStreams, expenses,
\* each list front to back.  The first invalid entity aborts the call with
\* the validation error and the import stays partly applied: every entity
\* before the invalid one in that order is stored (inserted at the end of its
\* collection or overwritten in place), the invalid one and those after it
\* are not, entities stored before the
\* call and not named before the invalid one are unchanged, and the snapshot
\* history is unchanged.  A list absent from the bundle leaves its collection
\* unchanged.
C20_ImportPartialApply == [][C20_ImportStep]_vars

\* importData has thrown at the second of three assets, on a ledger that held
\* an expense: the first asset is stored, the third and the liability of the
\* bundle are not, the expense is still there.
C20_Witness ==
  /\ lastOp = "importData"
  /\ threw
  /\ Len(arg.assets) = 3
  /\ Len(BeforeFirstInvalid(arg)) = 1
  /\ IsStored(assets, arg.assets[1])
  /\ ~MapHas(assets, "a2")
  /\ liabilities = <<>>
  /\ expenses # <<>>

\* C21: the snapshot history is chronological by construction.  In every
\* reachable state, after any sequence of createNetWorthSnapshot(date) calls,
\* with the default date or with a date the caller gives, and of
\* generateAnalytics() calls, the dates of the snapshots of
\* getNetWorthHistory() are non-decreasing in sequence order.
C21_Chronological ==
  \A i, j \in 1..Len(netWorthHistory) :
    i < j => netWorthHistory[i].date <= netWorthHistory[j].date

CallerWrites == {"asset.value =", "snapshot.netWorth ="}

\* What C22 asks of one step of the engine and its caller.
C22_ByValueStep ==
  /\ lastOp' \in CallerWrites =>
       /\ UNCHANGED <<assets, liabilities, incomeStreams, expenses>>
       /\ netWorthHistory' = netWorthHistory
       /\ calculateTotalAssets' = calculateTotalAssets
       /\ calculateNetWorth' = calculateNetWorth
  /\ \A i \in 1..Len(assets') : assets'[i].value >= 0

\* C22: entities and snapshots are stored by value and change only by
\* replacement.  After a successful add call, an assignment the caller makes
\* to the object it passed, to an entity object it got from a getter or to
\* a snapshot object it got from createNetWorthSnapshot() or
\* getNetWorthHistory() changes nothing of what the getters, the aggregates
\* and getNetWorthHistory() return; a stored entity changes only through a
\* later successful add call with its id, a remove call, importData or
\* reset, so that no stored value is ever negative.
C22_StoredByValue == [][C22_ByValueStep]_vars

\* C23: in every reachable state calculateEmergencyFundMonths() equals
\* calculateLiquidityRatio(), both liquid assets / monthly expenses and both 0
\* when monthly expenses are 0; so the factor 'Emergency fund insufficient'
\* of rule 4 is among the risk factors exactly when exactly one of the two
\* factors of rule 3 is, and liquidityConcern is the negation of
\* emergencyFundSufficiency.
C23_RunwayEqualsLiquidity ==
  LET r == performRiskAssessment
      has(f) == IsStored(r.riskFactors, f)
      rule3a == has("Low liquidity (less than 1 month of expenses)")
      rule3b == has("Insufficient emergency fund (less than 3 months)")
      rule4 == has("Emergency fund insufficient")
  IN  /\ calculateEmergencyFundMonths = calculateLiquidityRatio
      /\ calculateTotalMonthlyExpenses = 0 =>
           calculateEmergencyFundMonths = Zero /\ calculateLiquidityRatio = Zero
      /\ calculateTotalMonthlyExpenses # 0 =>
           /\ calculateLiquidityRatio.den > 0
           /\ calculateLiquidityRatio.num * calculateTotalMonthlyExpenses
                = getLiquidAssets * calculateLiquidityRatio.den
      /\ rule4 <=> ((rule3a /\ ~rule3b) \/ (rule3b /\ ~rule3a))
      /\ r.liquidityConcern <=> ~r.emergencyFundSufficiency

\* An asset that is not liquid is held besides a liquid one, and the liquid
\* assets cover between one and three months of expenses.
C23_Witness ==
  /\ calculateTotalAssets > getLiquidAssets
  /\ IsStored(performRiskAssessment.riskFactors,
              "Insufficient emergency fund (less than 3 months)")
  /\ IsStored(performRiskAssessment.riskFactors, "Emergency fund insufficient")
  /\ calculateLiquidityRatio = Num(1)
  /\ performRiskAssessment.liquidityConcern

\* C24: performRiskAssessment() returns riskLevel 'low' only where monthly
\* expenses are above 0, liquid assets are at least three times the monthly
\* expenses, active monthly income is above 0, the savings rate is at least
\* 10, the debt-to-income ratio is at most 35 and the net worth is not
\* negative.  An empty engine, fresh or just reset, is rated 'high' with
\* exactly the three factors low liquidity, emergency fund insufficient and
\* low savings rate, and an engine without expenses has at least two factors.
C24_LowRisk ==
  LET r == performRiskAssessment
      empty == /\ assets = <<>> /\ liabilities = <<>>
               /\ incomeStreams = <<>> /\ expenses = <<>>
  IN  /\ r.riskLevel = "low" =>
           /\ calculateTotalMonthlyExpenses > 0
           /\ getLiquidAssets >= 3 * calculateTotalMonthlyExpenses
           /\ calculateTotalMonthlyIncome > 0
           /\ AtLeast(calculateSavingsRate, 10)
           /\ ~Greater(calculateDebtToIncomeRatio, 35)
           /\ calculateNetWorth >= 0
      /\ empty =>
           /\ r.riskLevel = "high"
           /\ r.riskFactors = << "Low liquidity (less than 1 month of expenses)",
                                 "Emergency fund insufficient",
                                 "Low savings rate" >>
      /\ calculateTotalMonthlyExpenses = 0 => Len(r.riskFactors) >= 2

\* The engine is rated 'low' while it holds a liability.
C24_Witness ==
  /\ performRiskAssessment.riskLevel = "low"
  /\ liabilities # <<>>
  /\ calculateSavingsRate = Num(70)

\* C25 as claimed: direction and magnitude of the net-worth trend agree.  In
\* every report of calculateFinancialTrends() over at least two snapshots
\* whose previous net worth is not 0, netWorthChangePercent is above 0
\* exactly when netWorthTrend is 'increasing', below 0 exactly when it is
\* 'decreasing' and 0 exactly when it is 'stable', also when the previous
\* snapshot's net worth is negative.
C25_DirectionAgrees ==
  LET h == netWorthHistory
      t == calculateFinancialTrends(h)
  IN  (Len(h) >= 2 /\ h[Len(h) - 1].netWorth # 0) =>
        /\ Greater(t.netWorthChangePercent, 0) <=> t.netWorthTrend = "increasing"
        /\ Less(t.netWorthChangePercent, 0) <=> t.netWorthTrend = "decreasing"
        /\ t.netWorthChangePercent = Zero <=> t.netWorthTrend = "stable"

\* What the amended C25 asks of the history h.
C25_DirectionOf(h) ==
  LET t == calculateFinancialTrends(h)
      up == t.netWorthTrend = "increasing"
      down == t.netWorthTrend = "decreasing"
  IN  Len(h) >= 2 =>
        /\ t.netWorthChangePercent = Zero <=>
             (t.netWorthTrend = "stable" \/ h[Len(h) - 1].netWorth = 0)
        /\ h[Len(h) - 1].netWorth > 0 =>
             /\ Greater(t.netWorthChangePercent, 0) <=> up
             /\ Less(t.netWorthChangePercent, 0) <=> down
        /\ h[Len(h) - 1].netWorth < 0 =>
             /\ Greater(t.netWorthChangePercent, 0) <=> down
             /\ Less(t.netWorthChangePercent, 0) <=> up

\* C25, amended: in every report of calculateFinancialTrends() over at least
\* two snapshots, netWorthChangePercent is 0 exactly when netWorthTrend is
\* 'stable' or the previous net worth is 0; when the previous net worth is
\* positive it is above 0 exactly when the trend is 'increasing' and below 0
\* exactly when it is 'decreasing'; when the previous net worth is negative
\* the signs are the opposite ones: above 0 exactly when the trend is
\* 'decreasing', below 0 exactly when it is 'increasing'.
C25_DirectionBySignOfPrevious ==
  [][C25_DirectionOf(netWorthHistory) /\ C25_DirectionOf(netWorthHistory')]_vars

\* The net worth has risen from a negative one: the trend is 'increasing' and
\* the change is -100 percent.
C25_Witness ==
  /\ Len(netWorthHistory) >= 2
  /\ netWorthHistory[Len(netWorthHistory) - 1].netWorth < 0
  /\ calculateFinancialTrends(netWorthHistory).netWorthTrend = "increasing"
  /\ calculateFinancialTrends(netWorthHistory).netWorthChangePercent = Num(-100)

\* C26: in every state reached through add calls that passed validation,
\* calculateDebtToIncomeRatio() is at least 0 and so is the debtBurden of
\* performRiskAssessment(): no stored liability lowers the debt-to-income
\* ratio, since addLiability accepts none whose monthlyPayment makes the sum
\* of the monthly payments negative.
C26_DebtRatioNotNegative ==
  /\ AtLeast(calculateDebtToIncomeRatio, 0)
  /\ AtLeast(performRiskAssessment.debtBurden, 0)

RECURSIVE NetOfTransactions(_, _)
\* The stored 'income' amounts minus the stored 'expense' amounts of an
\* account, transfers counting 0.
NetOfTransactions(transactions, accountId) ==
  IF transactions = <<>> THEN 0
  ELSE LET txn == Head(transactions)
           part == IF txn.accountId # accountId THEN 0
                   ELSE IF txn.type = "income" THEN txn.amount
                   ELSE IF txn.type = "expense" THEN -txn.amount
                   ELSE 0
       IN part + NetOfTransactions(Tail(transactions), accountId)

\* The balance the account was created with.
OpeningOf(accountId) ==
  opening[CHOOSE i \in DOMAIN opening : opening[i].id = accountId].balance

\* C27: after any sequence of createAccount, addTransaction,
\* updateTransaction and deleteTransaction, the balance of every account is
\* the balance it was created with, plus the amounts of its stored 'income'
\* transactions, minus the amounts of its stored 'expense' transactions;
\* 'transfer' transactions count 0.  So deleting a transaction undoes its
\* addition whatever its type, and an update to amount 0, to another type
\* or to another accountId keeps the equality.
C27_BalanceConserved ==
  \A i \in DOMAIN store.accounts :
    store.accounts[i].balance =
      OpeningOf(store.accounts[i].id)
        + NetOfTransactions(store.transactions, store.accounts[i].id)

\* No state update waits for a render and no effect waits to run.
Settled == ~loadPending /\ ~persistPending /\ ~stale

\* A step writes the item only once the load effect has set isLoaded, and
\* as long as no operation has been called a saved store that parses keeps
\* its value.
C28_NoWriteBeforeLoad ==
  /\ localStorage' # localStorage => isLoaded
  /\ (calls' = 0 /\ localStorage # <<>> /\ localStorage[1].valid) =>
       /\ localStorage' # <<>>
       /\ localStorage'[1].valid
       /\ JSONparse(localStorage'[1]) = JSONparse(localStorage[1])

=============================================================================
